---- MODULE Spec2Model ----
(***************************************************************************)
(* Verification model of text_renderer: the bounding-box algebra, the      *)
(* layouts, the effect chain, the sampling / render retry wrappers and     *)
(* the multiprocess driver with its dataset writer.                        *)
(*                                                                         *)
(* The model holds several specifications over one set of variables; each  *)
(* specification drives one component and leaves the others idle:          *)
(*   SpecBBox    BBox.offset, BBox.offset_, BBox.move_origin               *)
(*   SpecLayout  SameLineLayout, ExtraTextLineLayout, BBox.from_bboxes     *)
(*   SpecEffect  Effect.__call__, OneOf, Effects.apply_effects             *)
(*   SpecRender  Corpus.sample and Render.__call__ under tenacity's retry  *)
(*   SpecDriver  main.py: driver, worker pool, DBWriterProcess             *)
(***************************************************************************)
EXTENDS Integers, Sequences, FiniteSets, TLC

VARIABLES
    \* ---- geometry (utils/bbox.py, layout/*.py, render.py:231-241)
    bbox,          \* the BBox object an offset operation is called on
    bbox_ret,      \* the BBox returned by the last BBox.offset call
    bbox_op,       \* the last offset operation: name, receiver before, anchor, move_to
    layout,        \* which Layout the render configuration holds
    h_spacing,     \* SameLineLayout.h_spacing: <<lo, hi>>, two rationals
    layout_in,     \* the boxes as they were handed to Layout.apply
    img_bboxes,    \* the list of boxes Layout.apply works on and returns
    sl_ext,        \* SameLineLayout: the boxes after the gaps were added
    sl_merged,     \* SameLineLayout: merged_bbox (same_line.py:33)
    lphase,        \* "input" -> "laid" -> "merged"
    merged_bbox,   \* render.py:241
    \* ---- effect chain (effect/base_effect.py, effect/selector.py)
    canvases,      \* the images alive: canvases[id] is the content of image id
    bboxes,        \* the BBox objects alive: bboxes[id]
    effects,       \* Effects.effects, the configured list
    fx_pc,         \* position in Effects.apply_effects: "call", "loop", "done"
    fx_in,         \* the arguments of apply_effects and what they held at the call
    fx_img,        \* apply_effects' local img (an image id)
    fx_bbox,       \* apply_effects' local bbox (a BBox id)
    fx_i,          \* index of the next effect of the loop
    fx_log,        \* one record per call e(img, bbox) made so far
    fx_ret,        \* what apply_effects returned
    \* ---- sampling and the render call (corpus/corpus.py, font_manager.py, render.py)
    font_paths,                \* FontManager.font_paths
    font_support_chars_cache,  \* FontManager.font_support_chars_cache: path -> set of chars
    font_size,                 \* <<font_size_min, font_size_max>>
    clip_length,               \* CorpusCfg.clip_length
    s_pc,          \* position of a Corpus.sample call: "idle", "attempt", "raised", "returned"
    s_exc,         \* the exception sample raised last, with what caused it
    s_ret,         \* what sample returned, with what check_support reported
    n_corpus,      \* number of corpora of the Render
    layout_len,    \* "same" or "fewer": how many boxes the layout returns
    r_pc,          \* position of a Render.__call__: "idle", "attempt", "sample", "layout",
                   \* "finish", "raised", "returned"
    r_exc,         \* the exception the render call raised last
    r_texts,       \* the texts sampled in this attempt
    r_ret,         \* what the render call returned
    \* ---- driver, worker pool and dataset writer (main.py, dataset.py)
    num_processes, \* args.num_processes: 0 runs the generation in the driver itself
    num_image,     \* generator_cfg.num_image
    fault,         \* what is wrong with the render configuration, if anything
    d_pc,          \* position of the driver in __main__
    d_i,           \* the driver's loop counter (images generated / tasks submitted)
    data_queue,    \* the manager queue between producers and the writer
    taskqueue,     \* the pool's queue of submitted generate_img tasks
    outstanding,   \* tasks submitted to the pool and not finished
    task_errors,   \* tasks whose AsyncResult holds an exception (nobody reads it)
    w_pc,          \* position of each pool worker
    w_task,        \* the task each pool worker is running
    wr_pc,         \* position of DBWriterProcess.run
    m,             \* run's local m: the message dequeued last
    exist_count,   \* run's local exist_count
    count,         \* run's local count
    db_data,       \* what db.write stored, in the order of the calls
    num_samples,   \* the dataset's stored count (read_count / write_count)
    dequeued,      \* every message other than the stop token the writer dequeued
    fatal_raised,  \* a PanicError was raised by process_setup or generate_img
    \* ---- Render construction and the label path (render.py, layout/*.py)
    cfg_corpus,          \* RenderCfg.corpus
    cfg_corpus_effects,  \* RenderCfg.corpus_effects
    cfg_layout,          \* RenderCfg.layout
    self_corpus,         \* Render.corpus
    rc_pc,         \* "new", "panic", "ready", "layout", "single", "laid", "raised", "returned"
    rc_exc,        \* the exception the constructor or the attempt raised
    rc_sampled,    \* how many times a corpus was sampled
    font_texts,    \* the texts of the FontText list of this attempt
    text_mask_bboxes,  \* the boxes the layout returned
    merged_text,   \* the text the layout returned
    rc_ret,        \* what the render call returned
    cfg_gray,      \* RenderCfg.gray
    cfg_height,    \* RenderCfg.height, -1 for no resize
    np_img,        \* the shape of the array given to norm
    \* ---- load_chars_file (utils/utils.py)
    chars_file,    \* the lines of the file
    lc_pc,         \* "loop", "panic", "returned"
    lc_i,          \* index of the line the loop is at (from 1)
    assumed_space, \* load_chars_file's local assumed_space
    lc_lines,      \* load_chars_file's local _lines
    lc_exc,        \* the message of the PanicError raised
    lc_ret,        \* the set returned
    \* ---- CharCorpus (corpus/char_corpus.py)
    cc_text,       \* CharCorpus.text
    cc_length,     \* cfg.length: <<min, max>>
    cc_pc,         \* "new", "panic", "ready", "returned", "raised"
    cc_exc,        \* the exception raised last
    cc_ret,        \* what get_text returned last
    \* ---- EnumCorpus (corpus/enum_corpus.py)
    ec_text_paths, \* cfg.text_paths
    ec_items,      \* cfg.items
    ec_pc,         \* "new", "panic", "ready", "returned"
    ec_exc,        \* the message of the PanicError raised
    ec_texts,      \* EnumCorpus.texts
    ec_ret,        \* what get_text returned last
    \* ---- FontManager: refining and filtering fonts (font_manager.py)
    declared,      \* per font, the characters of its cmap tables
    charset,       \* what load_chars_file(chars_file) returned
    glyph_blank,   \* per font, the characters whose glyph mask is empty
    font_support_chars_intersection_with_chars,
    min_support_chars, \* the argument of filter_font_path
    ff_pc,         \* "constructed", "updated", "filtered"
    \* ---- FontManager: the cache of _get_font (font_manager.py:173-176)
    hc_order,      \* the cached (path, size) keys, least recently used first
    hc_handle,     \* the cached handle of each cached key
    hc_made,       \* how many handles ImageFont.truetype has made
    hc_parsed,     \* per requested key, how often the font file was parsed
    hc_first,      \* the first key requested, as a set of at most one key
    hc_first_handle, \* per requested key, the handle of its first request
    hc_prev,       \* the handle of the previous request for the first key
    hc_others,     \* the other keys requested since that request
    hc_ret,        \* the last request: its key, its handle, what it did
    \* ---- the generator configurations in sequence (main.py:156-181)
    batch,         \* which generator configuration the driver is at, from 1
    failures,      \* how many attempts of render() failed in this configuration
    q_batch,       \* for each element of data_queue, the configuration that put it
    m_batch,       \* the configuration that put the message the writer holds
    wr_batch,      \* the configuration the running writer was started for
    alive,         \* how many writer processes were started and have not ended
    routed,        \* per write of this configuration: who put it, who wrote it
    stored,        \* the names stored in the dataset by earlier configurations
    \* ---- PerspectiveTransform (utils/math_utils.py) and its callers
    pt_caller,     \* "gen_single_corpus", "gen_multi_corpus" or "direct"
    pt_cfg,        \* cfg.perspective_transform: "None", "Fixed", "Uniform"
    pt_canvas,     \* the size of the mask the render call warps
    pt_pc,         \* "start", "constructed", "sized", "warped", "raised", "skipped"
    pt_xyz,        \* self.x, self.y, self.z of the instance, {} before it exists
    pt_M33,        \* self.M33, {} while the attribute is not set
    pt_sl,         \* self.sl, {} while the attribute is not set
    pt_draws,      \* how often get_xyz ran in this render call
    pt_gens,       \* whether gen_warp_matrix ran on this instance (0 or 1)
    pt_last,       \* the arguments of the last gen_warp_matrix on this instance
    pt_used,       \* what the last do_warp_perspective warped with
    pt_exc,        \* the exception raised last
    \* ---- Padding and Line (effect/padding.py, effect/line.py)
    ln_img,        \* the size of the canvas passed to apply
    ln_bbox,       \* the text box passed to apply
    ln_pc,         \* "start", "applied"
    ln_func,       \* the variant of Line that ran, or "Padding"
    ln_tb,         \* <<in_offset, thickness, out_offset>> of _get_tb_param
    ln_lr,         \* <<in_offset, thickness, out_offset>> of _get_lr_param
    ln_ret,        \* what apply returned: the new canvas size and the box
    \* ---- LmdbDataset (dataset.py)
    ld_disk,       \* what the database directory holds: key -> bytes
    ld_txn,        \* what the open write transaction holds
    ld_pc,         \* "closed", "open"
    ld_scopes,     \* how many with-blocks were entered
    ld_told_disk,  \* what the scopes that ended normally were told to store
    ld_told_txn,   \* the same, with what the open scope was told
    ld_ret,        \* what the last call returned, if it was read or read_count
    ld_exc         \* the exception that left the scope

vars == <<bbox, bbox_ret, bbox_op, layout, h_spacing, layout_in, img_bboxes, sl_ext,
          sl_merged, lphase, merged_bbox,
          canvases, bboxes, effects, fx_pc, fx_in, fx_img, fx_bbox, fx_i, fx_log, fx_ret,
          font_paths, font_support_chars_cache, font_size, clip_length, s_pc, s_exc,
          s_ret, n_corpus, layout_len, r_pc, r_exc, r_texts, r_ret,
          num_processes, num_image, fault, d_pc, d_i, data_queue, taskqueue, outstanding,
          task_errors, w_pc, w_task, wr_pc, m, exist_count, count, db_data, num_samples,
          dequeued, fatal_raised,
          cfg_corpus, cfg_corpus_effects, cfg_layout, self_corpus, rc_pc, rc_exc,
          rc_sampled, font_texts, text_mask_bboxes, merged_text, rc_ret,
          cfg_gray, cfg_height, np_img,
          chars_file, lc_pc, lc_i, assumed_space, lc_lines, lc_exc, lc_ret,
          cc_text, cc_length, cc_pc, cc_exc, cc_ret,
          ec_text_paths, ec_items, ec_pc, ec_exc, ec_texts, ec_ret,
          declared, charset, glyph_blank, font_support_chars_intersection_with_chars,
          min_support_chars, ff_pc,
          hc_order, hc_handle, hc_made, hc_parsed, hc_first, hc_first_handle,
          hc_prev, hc_others, hc_ret,
          batch, failures, q_batch, m_batch, wr_batch, alive, routed, stored,
          pt_caller, pt_cfg, pt_canvas, pt_pc, pt_xyz, pt_M33, pt_sl, pt_draws,
          pt_gens, pt_last, pt_used, pt_exc,
          ln_img, ln_bbox, ln_pc, ln_func, ln_tb, ln_lr, ln_ret,
          ld_disk, ld_txn, ld_pc, ld_scopes, ld_told_disk, ld_told_txn, ld_ret, ld_exc>>

\* ------------------------------------------------------------------ bounds
MaxBoxes == 3      \* most corpus items laid out on one line
MaxH == 4          \* tallest text mask
MaxCoord == 2      \* offset targets lie in -MaxCoord..MaxCoord
MaxEffects == 2    \* longest effect list of an Effects object
MaxLen == 2        \* longest text get_text returns
MaxImages == 3     \* largest num_image of a generator configuration
MaxSampled == 4    \* samples after which a failed render call is not followed further
MaxLines == 3      \* most lines of a chars file
MaxText == 4       \* longest corpus text of a CharCorpus
MaxItems == 2      \* most items, and most text paths, of an EnumCorpusCfg
MaxFontSize == 130 \* largest font size requested of the handle cache
MaxBatches == 2    \* most generator configurations of one run
MaxFailures == 2   \* most failed attempts of render() in one configuration
MaxOffset == 1     \* largest inner or outer offset a Line draws
MaxScopes == 2     \* most with-blocks opened on one LmdbDataset directory

\* Widths of the text masks, and the values random.uniform is sampled at:
\* a scale is the rational s[1] / s[2].
Widths == {1, 3}
Heights == 1..MaxH
UnitScales == {<<0, 1>>, <<1, 2>>, <<1, 1>>}

\* ------------------------------------------------------------- utilities
Max(S) == CHOOSE x \in S : \A y \in S : y <= x
Min(S) == CHOOSE x \in S : \A y \in S : x <= y
Range(s) == {s[i] : i \in 1..Len(s)}

RECURSIVE SumSeq(_)
SumSeq(s) == IF s = <<>> THEN 0 ELSE Head(s) + SumSeq(Tail(s))

\* Python's int() of the non-negative rational n/d.
Trunc(n, d) == n \div d

None == [none |-> TRUE]

\* --------------------------------------------------------------- BBox
BBox(l, t, r, b) == [left |-> l, top |-> t, right |-> r, bottom |-> b]

cx(B) == (B.left + B.right) \div 2
cy(B) == (B.top + B.bottom) \div 2
height(B) == B.bottom - B.top
width(B) == B.right - B.left

cnt(B) == <<cx(B), cy(B)>>
left_cnt(B) == <<B.left, cy(B)>>
top_cnt(B) == <<cx(B), B.top>>
right_cnt(B) == <<B.right, cy(B)>>
bottom_cnt(B) == <<cx(B), B.bottom>>
left_top(B) == <<B.left, B.top>>
left_bottom(B) == <<B.left, B.bottom>>
right_top(B) == <<B.right, B.top>>
right_bottom(B) == <<B.right, B.bottom>>

AnchorNames == {"cnt", "left_cnt", "top_cnt", "right_cnt", "bottom_cnt",
                "left_top", "left_bottom", "right_top", "right_bottom"}

\* The named point of a box.
AnchorPt(B, name) ==
    CASE name = "cnt" -> cnt(B)
      [] name = "left_cnt" -> left_cnt(B)
      [] name = "top_cnt" -> top_cnt(B)
      [] name = "right_cnt" -> right_cnt(B)
      [] name = "bottom_cnt" -> bottom_cnt(B)
      [] name = "left_top" -> left_top(B)
      [] name = "left_bottom" -> left_bottom(B)
      [] name = "right_top" -> right_top(B)
      [] name = "right_bottom" -> right_bottom(B)

from_size(size) == BBox(0, 0, size[1], size[2])

\* A slip that adds the vertical offset to the right edge.
offset_Skewed(B, anchor, move_to) ==
    LET offset_x == move_to[1] - anchor[1]
        offset_y == move_to[2] - anchor[2]
    IN  BBox(B.left + offset_x, B.top + offset_y,
             B.right + offset_y, B.bottom + offset_y)

\* BBox.offset_: the receiver after the in-place move.
offset_(B, anchor, move_to) ==
    LET offset_x == move_to[1] - anchor[1]
        offset_y == move_to[2] - anchor[2]
    IN  BBox(B.left + offset_x, B.top + offset_y,
             B.right + offset_x, B.bottom + offset_y)

\* BBox.offset: a deep copy of the receiver, moved in place, returned.
offset(B, anchor, move_to) == offset_(B, anchor, move_to)

\* A hull that takes the smallest right edge.
from_bboxesNarrow(boxes) ==
    BBox(Max({Min({b.left : b \in Range(boxes)}), 0}),
         Max({Min({b.top : b \in Range(boxes)}), 0}),
         Min({b.right : b \in Range(boxes)}),
         Max({b.bottom : b \in Range(boxes)}))

\* BBox.from_bboxes.
from_bboxes(boxes) ==
    BBox(Max({Min({b.left : b \in Range(boxes)}), 0}),
         Max({Min({b.top : b \in Range(boxes)}), 0}),
         Max({b.right : b \in Range(boxes)}),
         Max({b.bottom : b \in Range(boxes)}))

\* ------------------------------------------------------- BBox operations
Points == (-MaxCoord..MaxCoord) \X (-MaxCoord..MaxCoord)

NoOp == [name |-> "none"]

BBoxIdle ==
    /\ bbox = BBox(0, 0, 1, 1)
    /\ bbox_ret = None
    /\ bbox_op = NoOp

\* A freshly constructed box; no operation was called on it yet.
BBoxInit ==
    /\ bbox \in {BBox(l, t, l + w, t + h) :
                    <<l, t>> \in (-1..1) \X (-1..1), <<w, h>> \in Widths \X Heights}
    /\ bbox_ret = None
    /\ bbox_op = NoOp

\* BBox.move_origin: a copy moved by offset_((0, 0), pnt).
move_origin(B, pnt) == offset_(B, <<0, 0>>, pnt)

\* b.offset(anchor, move_to) with anchor a named point of b.
BBoxOffset ==
    /\ bbox_op = NoOp
    /\ \E name \in AnchorNames, t \in Points :
         /\ bbox_ret' = offset(bbox, AnchorPt(bbox, name), t)
         /\ bbox_op' = [name |-> "offset", before |-> bbox, anchor_name |-> name,
                        anchor |-> AnchorPt(bbox, name), move_to |-> t]
    /\ bbox' = bbox

\* b.offset_(anchor, move_to) with anchor a named point of b.
BBoxOffset_ ==
    /\ bbox_op = NoOp
    /\ \E name \in AnchorNames, t \in Points :
         /\ bbox' = offset_(bbox, AnchorPt(bbox, name), t)
         /\ bbox_op' = [name |-> "offset_", before |-> bbox, anchor_name |-> name,
                        anchor |-> AnchorPt(bbox, name), move_to |-> t]
    /\ bbox_ret' = None

\* b.move_origin(pnt): the anchor is the origin, which need not lie on b.
BBoxMoveOrigin ==
    /\ bbox_op = NoOp
    /\ \E t \in Points :
         /\ bbox_ret' = move_origin(bbox, t)
         /\ bbox_op' = [name |-> "move_origin", before |-> bbox,
                        anchor_name |-> "origin", anchor |-> <<0, 0>>, move_to |-> t]
    /\ bbox' = bbox

\* ------------------------------------------------------------- layouts
\* lo <= s <= hi for rationals given as <<numerator, denominator>>.
RatLe(a, b) == a[1] * b[2] <= b[1] * a[2]
ScalesIn(lo, hi) == {s \in UnitScales : RatLe(lo, s) /\ RatLe(s, hi)}

Heights_(boxes) == [i \in 1..Len(boxes) |-> height(boxes[i])]

\* same_line.py:26-30: int(avg_height * h_spacing_scale) for the scale s.
SameLineGap(boxes, s) == Trunc(SumSeq(Heights_(boxes)) * s[1], Len(boxes) * s[2])

\* A chaining that lines up the top edges instead of the centres.
SameLineChainTop(b, prev) == offset_(b, left_top(b), right_top(prev))

\* same_line.py:38: box i moved so that its left centre is the right centre
\* of the already placed box i-1.
SameLineChain(b, prev) == offset_(b, left_cnt(b), right_cnt(prev))

\* same_line.py:28-31: every box but the last is widened by its gap.
SameLineExtend(boxes, gaps) ==
    [i \in 1..Len(boxes) |->
        IF i < Len(boxes) THEN [boxes[i] EXCEPT !.right = @ + gaps[i]] ELSE boxes[i]]

\* same_line.py:33-40 on the widened boxes.
SameLinePlace(ext) ==
    LET merged == from_bboxes(ext)
        out[i \in 1..Len(ext)] ==
            IF i = 1 THEN offset_(ext[1], left_cnt(ext[1]), left_cnt(merged))
            ELSE SameLineChain(ext[i], out[i - 1])
    IN  out

\* extra_text_line.py:43-60: the extra line above the main line.
ExtraAbove(main, extra, s_main, s_extra) ==
    LET main_offset == Trunc(height(main) * s_main[1], s_main[2])
        main2 == offset_(main, left_top(main),
                         <<left_top(main)[1], left_top(main)[2] + main_offset>>)
        extra_offset == Trunc((main_offset \div 2) * s_extra[1], s_extra[2])
        extra2 == offset_(extra, left_bottom(extra),
                          <<left_top(main2)[1], left_top(main2)[2] - extra_offset>>)
    IN  <<main2, extra2>>

\* extra_text_line.py:61-68: the extra line below the main line.
ExtraBottom(main, extra, s_cut) ==
    LET extra2 == offset_(extra, left_top(extra), left_bottom(main))
    IN  <<main, [extra2 EXCEPT !.bottom = @ - Trunc(height(extra2) * s_cut[1], s_cut[2])]>>

\* extra_text_line.py:70-73: a wider extra line is cut to the main line's width.
ExtraTrim(pair) ==
    LET main == pair[1]
        extra == pair[2]
    IN  IF width(extra) > width(main)
        THEN <<main, [extra EXCEPT !.right = @ - (width(extra) - width(main))]>>
        ELSE pair

\* Samples of random.uniform(0.3, 0.4) and random.uniform(0.65, 0.9).
MainScales == {<<3, 10>>, <<7, 20>>, <<4, 10>>}
CutScales == {<<65, 100>>, <<3, 4>>, <<9, 10>>}

LayoutIdle ==
    /\ layout = "same_line"
    /\ h_spacing = <<<<0, 1>>, <<0, 1>>>>
    /\ layout_in = <<>>
    /\ img_bboxes = <<>>
    /\ sl_ext = <<>>
    /\ sl_merged = None
    /\ lphase = "idle"
    /\ merged_bbox = None

\* render.py:231-235: the layout is called with one from_size box per text
\* mask; h_spacing is (0, 0) or the default (0, 1).
LayoutInit ==
    /\ layout \in {"same_line", "extra_text_line"}
    /\ h_spacing \in {<<<<0, 1>>, <<0, 1>>>>, <<<<0, 1>>, <<1, 1>>>>}
    /\ (layout = "extra_text_line" => h_spacing = <<<<0, 1>>, <<0, 1>>>>)
    /\ \E n \in 1..MaxBoxes :
         img_bboxes \in [1..n -> {from_size(sz) : sz \in Widths \X Heights}]
    /\ layout_in = img_bboxes
    /\ sl_ext = <<>>
    /\ sl_merged = None
    /\ lphase = "input"
    /\ merged_bbox = None

\* SameLineLayout.apply.
SameLineLayoutApply ==
    /\ lphase = "input"
    /\ layout = "same_line"
    /\ \E gaps \in [1..(Len(img_bboxes) - 1) ->
                      {SameLineGap(img_bboxes, s) : s \in ScalesIn(h_spacing[1], h_spacing[2])}] :
         LET ext == SameLineExtend(img_bboxes, gaps)
         IN  /\ sl_ext' = ext
             /\ sl_merged' = from_bboxes(ext)
             /\ img_bboxes' = SameLinePlace(ext)
    /\ lphase' = "laid"
    /\ UNCHANGED <<layout, h_spacing, layout_in, merged_bbox>>

\* ExtraTextLineLayout.apply on two boxes.
ExtraTextLineLayoutApply ==
    /\ lphase = "input"
    /\ layout = "extra_text_line"
    /\ Len(img_bboxes) = 2
    /\ \/ \E s_main \in MainScales, s_extra \in UnitScales :
            img_bboxes' = ExtraTrim(ExtraAbove(img_bboxes[1], img_bboxes[2], s_main, s_extra))
       \/ \E s_cut \in CutScales :
            img_bboxes' = ExtraTrim(ExtraBottom(img_bboxes[1], img_bboxes[2], s_cut))
    /\ lphase' = "laid"
    /\ UNCHANGED <<layout, h_spacing, layout_in, sl_ext, sl_merged, merged_bbox>>

\* ExtraTextLineLayout.apply on any other number of boxes: the assertion fails.
ExtraTextLineLayoutAssert ==
    /\ lphase = "input"
    /\ layout = "extra_text_line"
    /\ Len(img_bboxes) # 2
    /\ lphase' = "assert_failed"
    /\ UNCHANGED <<layout, h_spacing, layout_in, img_bboxes, sl_ext, sl_merged, merged_bbox>>

\* render.py:241: the hull of the boxes the layout returned.
RenderMergeBBoxes ==
    /\ lphase = "laid"
    /\ merged_bbox' = from_bboxes(img_bboxes)
    /\ lphase' = "merged"
    /\ UNCHANGED <<layout, h_spacing, layout_in, img_bboxes, sl_ext, sl_merged>>

\* ----------------------------------------------------------- effects
\* An image is [w, h, px]; px stands for the pixel content and changes
\* whenever an effect draws on the image.
Canvas(w, h, px) == [w |-> w, h |-> h, px |-> px]

\* The values of Effect.p: below 1 the gate may go either way, at 1 it is
\* always taken (utils.py:34, random.uniform(0, 1) <= percent).
Probs == {"half", "one"}
prob(p) == IF p = "one" THEN {TRUE} ELSE {TRUE, FALSE}

Effect(kind, p) == [kind |-> kind, p |-> p]
EffectKinds == {"dropout_rand", "padding", "line_bottom"}
SimpleEffects == {Effect(k, p) : k \in EffectKinds, p \in Probs}
OneOf(es) == [kind |-> "one_of", effects |-> es]
EffectElems ==
    SimpleEffects \cup {OneOf(<<Effect("dropout_rand", "one"), Effect("padding", "half")>>)}

\* Samples of the random draws of Padding (w_ratio, h_ratio) and of Line
\* (_get_tb_param: in_offset, thickness, out_offset).
PadRatios == {<<0, 1>>, <<1, 2>>}
TbParams == {<<0, 1, 0>>, <<1, 1, 1>>}

\* DropoutRand.apply: draws on img itself, returns img and text_bbox.
DropoutRandApply(cs, bs, img, bb) ==
    [cs |-> [cs EXCEPT ![img].px = @ + 1], bs |-> bs, img |-> img, bbox |-> bb]

\* Padding.apply: a new, larger image with img pasted at xy, and a new box.
PaddingApply(cs, bs, img, bb, wr, hr, xy) ==
    LET new_w == Trunc(cs[img].w * wr[2] + cs[img].w * wr[1], wr[2])
        new_h == Trunc(cs[img].h * hr[2] + cs[img].h * hr[1], hr[2])
    IN  [cs |-> Append(cs, Canvas(new_w, new_h, cs[img].px)),
         bs |-> Append(bs, move_origin(bs[bb], xy)),
         img |-> Len(cs) + 1, bbox |-> Len(bs) + 1]

\* random_xy_offset(small_size, big_size).
random_xy_offset(small, big) ==
    (0..(IF big[1] > small[1] THEN big[1] - small[1] ELSE 0))
        \X (0..(IF big[2] > small[2] THEN big[2] - small[2] ELSE 0))

\* Line.apply_bottom: a new, taller image; text_bbox itself is enlarged.
LineBottomApply(cs, bs, img, bb, tb) ==
    [cs |-> Append(cs, Canvas(cs[img].w, cs[img].h + tb[2] + tb[1] + tb[3], cs[img].px + 1)),
     bs |-> [bs EXCEPT ![bb].bottom = @ + tb[1] + tb[2] + tb[3]],
     img |-> Len(cs) + 1, bbox |-> bb]

\* The outcomes of e.apply(img, text_bbox) over its random draws.
Apply(e, cs, bs, img, bb) ==
    CASE e.kind = "dropout_rand" -> {DropoutRandApply(cs, bs, img, bb)}
      [] e.kind = "padding" ->
            UNION {{PaddingApply(cs, bs, img, bb, wr, hr, xy) :
                      xy \in random_xy_offset(
                               <<cs[img].w, cs[img].h>>,
                               <<Trunc(cs[img].w * wr[2] + cs[img].w * wr[1], wr[2]),
                                 Trunc(cs[img].h * hr[2] + cs[img].h * hr[1], hr[2])>>)} :
                   <<wr, hr>> \in PadRatios \X PadRatios}
      [] e.kind = "line_bottom" -> {LineBottomApply(cs, bs, img, bb, tb) : tb \in TbParams}

\* The gate without the copy: apply draws on the caller's image.
GateCopyShared(cs, img) == [cs |-> cs, img |-> img]

\* base_effect.py:48, img = img.copy(): the image apply is given.
GateCopy(cs, img) == [cs |-> Append(cs, cs[img]), img |-> Len(cs) + 1]

\* Effect.__call__(img, text_bbox): the outcomes, each with the gate's value
\* and the image apply ran on (0 when the gate was not taken).
EffectCall(e, cs, bs, img, bb) ==
    UNION {IF taken
           THEN LET c == GateCopy(cs, img)
                IN  {[gate |-> TRUE, ran_on |-> c.img, out |-> o] :
                       o \in Apply(e, c.cs, bs, c.img, bb)}
           ELSE {[gate |-> FALSE, ran_on |-> 0,
                  out |-> [cs |-> cs, bs |-> bs, img |-> img, bbox |-> bb]]} :
           taken \in prob(e.p)}

\* OneOf.__call__: one effect of the list is picked and called.
ElemCall(e, cs, bs, img, bb) ==
    IF e.kind = "one_of"
    THEN UNION {{[r EXCEPT !.picked = e.effects[k]] :
                   r \in {[picked |-> e.effects[k]] @@ c :
                            c \in EffectCall(e.effects[k], cs, bs, img, bb)}} :
                k \in 1..Len(e.effects)}
    ELSE {[picked |-> e] @@ c : c \in EffectCall(e, cs, bs, img, bb)}

\* An assignment that keeps the old bbox: img, _ = e(img, bbox).
ThreadDropBBox(cur, ret) == [img |-> ret.img, bbox |-> cur.bbox]

\* base_effect.py:169, img, bbox = e(img, bbox): the locals after the call.
Thread(cur, ret) == [img |-> ret.img, bbox |-> ret.bbox]

EffectIdle ==
    /\ canvases = <<>>
    /\ bboxes = <<>>
    /\ effects = <<>>
    /\ fx_pc = "idle"
    /\ fx_in = None
    /\ fx_img = 0
    /\ fx_bbox = 0
    /\ fx_i = 0
    /\ fx_log = <<>>
    /\ fx_ret = None

\* An Effects object, and the caller's text mask and its from_size box
\* (render.py:155-158, 223-227), before apply_effects is called.
EffectInit ==
    /\ \E n \in 1..MaxEffects : effects \in [1..n -> EffectElems]
    /\ \E sz \in {<<2, 2>>, <<3, 2>>} :
         /\ canvases = <<Canvas(sz[1], sz[2], 0)>>
         /\ bboxes = <<from_size(sz)>>
    /\ fx_pc = "call"
    /\ fx_in = None
    /\ fx_img = 0
    /\ fx_bbox = 0
    /\ fx_i = 0
    /\ fx_log = <<>>
    /\ fx_ret = None

\* apply_effects(img, bbox) is entered: img = img.copy().
ApplyEffectsEnter ==
    /\ fx_pc = "call"
    /\ fx_in' = [img |-> 1, bbox |-> 1, canvas |-> canvases[1], box |-> bboxes[1]]
    /\ canvases' = Append(canvases, canvases[1])
    /\ fx_img' = Len(canvases) + 1
    /\ fx_bbox' = 1
    /\ fx_i' = 1
    /\ fx_pc' = "loop"
    /\ UNCHANGED <<bboxes, effects, fx_log, fx_ret>>

\* One turn of the loop: img, bbox = e(img, bbox).
ApplyEffectsCall ==
    /\ fx_pc = "loop"
    /\ fx_i <= Len(effects)
    /\ \E c \in ElemCall(effects[fx_i], canvases, bboxes, fx_img, fx_bbox) :
         LET next == Thread([img |-> fx_img, bbox |-> fx_bbox], c.out)
         IN  /\ canvases' = c.out.cs
             /\ bboxes' = c.out.bs
             /\ fx_img' = next.img
             /\ fx_bbox' = next.bbox
             /\ fx_log' = Append(fx_log,
                    [elem |-> fx_i, picked |-> c.picked, gate |-> c.gate,
                     ran_on |-> c.ran_on,
                     in_img |-> fx_img, in_bbox |-> fx_bbox,
                     out_img |-> c.out.img, out_bbox |-> c.out.bbox,
                     canvas_before |-> canvases[fx_img],
                     canvas_after |-> c.out.cs[fx_img],
                     box_before |-> bboxes[fx_bbox],
                     box_after |-> c.out.bs[fx_bbox],
                     fresh |-> Len(canvases) + 1])
    /\ fx_i' = fx_i + 1
    /\ UNCHANGED <<effects, fx_pc, fx_in, fx_ret>>

\* The loop is over: return img, bbox.
ApplyEffectsReturn ==
    /\ fx_pc = "loop"
    /\ fx_i > Len(effects)
    /\ fx_ret' = [img |-> fx_img, bbox |-> fx_bbox]
    /\ fx_pc' = "done"
    /\ UNCHANGED <<canvases, bboxes, effects, fx_in, fx_img, fx_bbox, fx_i, fx_log>>

\* ------------------------------------------- sampling and the render call
Chars == {"a", "b"}
Fonts == {"f1.ttf", "f2.ttf"}
Texts == UNION {[1..n -> Chars] : n \in 1..MaxLen}

\* A retry policy that gives up at the first exception.
RetryPolicyStop(exc_type) == "stop"

\* tenacity's bare @retry (corpus.py:71, render.py:65): no stop condition,
\* and every exception type is retried.
RetryPolicy(exc_type) == "retry"

\* text[: clip_length]
Clip(text, n) == IF Len(text) > n THEN SubSeq(text, 1, n) ELSE text

\* A check that is satisfied as soon as one character is supported.
check_supportAny(text, chars) ==
    [status |-> Range(text) \cap chars # {}, intersect |-> Range(text) \ chars]

\* FontManager.check_support.
check_support(text, chars) ==
    LET text_set == Range(text)
        intersect == text_set \ chars
    IN  [status |-> Cardinality(intersect) = 0, intersect |-> intersect]

get_fontAboveMax ==
    {<<[path |-> fp, size |-> sz], font_support_chars_cache[fp], fp>> :
        fp \in Range(font_paths), sz \in font_size[1]..(font_size[2] + 1)}

\* FontManager.get_font: the outcomes <<font, font_support_chars, font_path>>,
\* a font being a (path, size) handle; random.randint includes both ends.
get_font ==
    {<<[path |-> fp, size |-> sz], font_support_chars_cache[fp], fp>> :
        fp \in Range(font_paths), sz \in font_size[1]..font_size[2]}

FontText(font, text, font_path) == [font |-> font, text |-> text, font_path |-> font_path]

SampleIdle ==
    /\ font_paths = <<>>
    /\ font_support_chars_cache = <<>>
    /\ font_size = <<1, 2>>
    /\ clip_length = -1
    /\ s_pc = "idle"
    /\ s_exc = None
    /\ s_ret = None

\* A constructed Corpus: a FontManager with at least one font, each with
\* the characters it supports.
SampleInit ==
    /\ font_paths \in {<<"f1.ttf">>, <<"f1.ttf", "f2.ttf">>}
    /\ font_support_chars_cache \in [Fonts -> SUBSET Chars]
    /\ font_support_chars_cache["f1.ttf"] # {}
    /\ font_size = <<1, 2>>
    /\ clip_length \in {-1, 1}
    /\ s_pc = "idle"
    /\ s_exc = None
    /\ s_ret = None

\* corpus.py:80-84: get_text raises; whatever it raised, sample raises RetryError.
SampleGetTextFails ==
    /\ s_pc = "attempt"
    /\ s_exc' = [type |-> "RetryError", cause |-> "get_text raised"]
    /\ s_pc' = "raised"
    /\ UNCHANGED <<font_paths, font_support_chars_cache, font_size, clip_length, s_ret>>

\* corpus.py:80-98 when get_text returns: clip, get_font, check_support,
\* then RetryError or the FontText.
SampleBody ==
    /\ s_pc = "attempt"
    /\ \E got \in Texts, f \in get_font :
         LET text == IF clip_length # -1 /\ Len(got) > clip_length
                     THEN Clip(got, clip_length) ELSE got
             chk == check_support(text, f[2])
         IN  IF ~chk.status
             THEN /\ s_exc' = [type |-> "RetryError", cause |-> "not support chars"]
                  /\ s_pc' = "raised"
                  /\ UNCHANGED s_ret
             ELSE /\ s_ret' = [font_text |-> FontText(f[1], text, f[3]),
                               got |-> got, support_chars |-> f[2]]
                  /\ s_pc' = "returned"
                  /\ UNCHANGED s_exc
    /\ UNCHANGED <<font_paths, font_support_chars_cache, font_size, clip_length>>

\* corpus.py:71: the retry wrapper decides after an exception.
SampleRetry ==
    /\ s_pc = "raised"
    /\ s_pc' = IF RetryPolicy(s_exc.type) = "retry" THEN "attempt" ELSE "aborted"
    /\ UNCHANGED <<font_paths, font_support_chars_cache, font_size, clip_length, s_exc, s_ret>>

RenderIdle ==
    /\ n_corpus = 1
    /\ layout_len = "same"
    /\ r_pc = "idle"
    /\ r_exc = "none"
    /\ r_texts = <<>>
    /\ r_ret = None

\* A constructed Render with one corpus, or with several and a layout. The
\* layouts of this repository return the boxes they were given; Layout.apply
\* is an abstract hook, and render.py:236 guards against an implementation
\* that returns another number of boxes.
RenderInit ==
    /\ n_corpus \in 1..2
    /\ layout_len \in {"same", "fewer"}
    /\ (n_corpus = 1 => layout_len = "same")
    /\ r_pc = "idle"
    /\ r_exc = "none"
    /\ r_texts = <<>>
    /\ r_ret = None

\* render(): the wrapper makes the first attempt.
RenderCall ==
    /\ r_pc = "idle"
    /\ r_pc' = "attempt"
    /\ UNCHANGED <<n_corpus, layout_len, r_exc, r_texts, r_ret, s_pc, s_exc, s_ret>>

\* render.py:81-85, 141, 203: the attempt starts sampling its first corpus.
RenderBegin ==
    /\ r_pc = "attempt"
    /\ r_texts' = <<>>
    /\ r_pc' = "sample"
    /\ s_pc' = "attempt"
    /\ UNCHANGED <<n_corpus, layout_len, r_exc, r_ret, s_exc, s_ret>>

\* it.sample() returned: keep the FontText, sample the next corpus or go on.
RenderSampled ==
    /\ r_pc = "sample"
    /\ s_pc = "returned"
    /\ r_texts' = Append(r_texts, s_ret.font_text.text)
    /\ IF Len(r_texts) + 1 < n_corpus
       THEN /\ s_pc' = "attempt"
            /\ r_pc' = "sample"
       ELSE /\ s_pc' = "idle"
            /\ r_pc' = IF n_corpus > 1 THEN "layout" ELSE "finish"
    /\ UNCHANGED <<n_corpus, layout_len, r_exc, r_ret, s_exc, s_ret>>

\* render.py:231-239: the layout is applied; PanicError when it returned
\* another number of boxes than it was given.
RenderLayout ==
    /\ r_pc = "layout"
    /\ LET returned == IF layout_len = "same" THEN n_corpus ELSE n_corpus - 1
       IN  IF returned # n_corpus
           THEN /\ r_exc' = "PanicError"
                /\ r_pc' = "raised"
           ELSE /\ r_pc' = "finish"
                /\ UNCHANGED r_exc
    /\ UNCHANGED <<n_corpus, layout_len, r_texts, r_ret, s_pc, s_exc, s_ret>>

\* Layout.merge_texts (layout.py:81) of the sampled texts.
RECURSIVE merge_texts(_)
merge_texts(texts) == IF texts = <<>> THEN <<>> ELSE Head(texts) \o merge_texts(Tail(texts))

\* render.py:87-119: the rest of the pipeline either returns (np_img, text)
\* or raises whatever a drawing or transform step raised.
RenderFinish ==
    /\ r_pc = "finish"
    /\ \/ /\ r_ret' = [label |-> IF n_corpus > 1 THEN merge_texts(r_texts) ELSE r_texts[1]]
          /\ r_pc' = "returned"
          /\ UNCHANGED r_exc
       \/ /\ r_exc' = "Exception"
          /\ r_pc' = "raised"
          /\ UNCHANGED r_ret
    /\ UNCHANGED <<n_corpus, layout_len, r_texts, s_pc, s_exc, s_ret>>

\* render.py:65: the retry wrapper decides after an exception.
RenderRetry ==
    /\ r_pc = "raised"
    /\ r_pc' = IF RetryPolicy(r_exc) = "retry" THEN "attempt" ELSE "aborted"
    /\ UNCHANGED <<n_corpus, layout_len, r_exc, r_texts, r_ret, s_pc, s_exc, s_ret>>

\* ------------------------------------------------- driver, pool, writer

\* main.py:23.  Messages on the queue are dicts, the token is a string; the
\* token is wrapped in a record so that it compares (unequal) with an item.
STOP_TOKEN == [token |-> "kill"]

NameWidth == 9
ProcessCounts == {0, 2}
Workers == 1..2
ExistCounts == {0, 8}
Faults == {"none", "setup_panic", "render_panic"}

\* generate_img's message for the image of task i.
Item(i) == [image |-> i, label |-> i]

\* str(n) for n >= 0, a sequence of digits.
RECURSIVE Digits(_)
Digits(n) == IF n < 10 THEN <<n>> ELSE Append(Digits(n \div 10), n % 10)

\* "{:09d}".format(n): the digits, zero-filled on the left to the width.
Format09(n) ==
    LET d == Digits(n)
        w == Max({NameWidth, Len(d)})
    IN  [i \in 1..w |-> IF i <= w - Len(d) THEN 0 ELSE d[i - (w - Len(d))]]

WriterNameCountOnly(exist, k) == Format09(k)
\* main.py:80
WriterName(exist, k) == Format09(exist + k)

WriterBreaksOnCount(msg, k, n) == msg = STOP_TOKEN \/ k + 1 >= n
\* main.py:76: the loop's only break.
WriterBreaks(msg, k, n) == msg = STOP_TOKEN

cfgvars == <<num_processes, num_image, fault>>
poolvars == <<taskqueue, outstanding, task_errors, w_pc, w_task>>
wrvars == <<wr_pc, m, exist_count, count, db_data, num_samples, dequeued>>
dvars == <<cfgvars, d_pc, d_i, data_queue, poolvars, wrvars, fatal_raised>>

DriverIdle ==
    /\ num_processes = 0
    /\ num_image = 1
    /\ fault = "none"
    /\ d_pc = "idle"
    /\ d_i = 0
    /\ data_queue = <<>>
    /\ taskqueue = <<>>
    /\ outstanding = 0
    /\ task_errors = {}
    /\ w_pc = [w \in Workers |-> "none"]
    /\ w_task = [w \in Workers |-> 0]
    /\ wr_pc = "unstarted"
    /\ m = None
    /\ exist_count = 0
    /\ count = 0
    /\ db_data = <<>>
    /\ num_samples = 0
    /\ dequeued = <<>>
    /\ fatal_raised = FALSE

\* One generator configuration, at the top of the for loop of __main__.
DriverInit ==
    /\ num_processes \in ProcessCounts
    /\ num_image \in 1..MaxImages
    /\ fault \in Faults
    /\ d_pc = "start"
    /\ d_i = 0
    /\ data_queue = <<>>
    /\ taskqueue = <<>>
    /\ outstanding = 0
    /\ task_errors = {}
    /\ w_pc = [w \in Workers |-> "none"]
    /\ w_task = [w \in Workers |-> 0]
    /\ wr_pc = "unstarted"
    /\ m = None
    /\ exist_count = 0
    /\ count = 0
    /\ db_data = <<>>
    /\ num_samples \in ExistCounts
    /\ dequeued = <<>>
    /\ fatal_raised = FALSE

\* main.py:157-162
DriverStartWriter ==
    /\ d_pc = "start"
    /\ wr_pc' = "open"
    /\ d_pc' = IF num_processes = 0 THEN "setup" ELSE "pool"
    /\ UNCHANGED <<cfgvars, d_i, data_queue, poolvars, m, exist_count, count, db_data,
                   num_samples, dequeued, fatal_raised>>

\* main.py:163 with process_setup (main.py:111-128) run by the driver: a
\* PanicError of Render.__init__ propagates out of __main__.
DriverProcessSetup ==
    /\ d_pc = "setup"
    /\ IF fault = "setup_panic"
           THEN d_pc' = "failed" /\ fatal_raised' = TRUE
           ELSE d_pc' = "generate" /\ UNCHANGED fatal_raised
    /\ UNCHANGED <<cfgvars, d_i, data_queue, poolvars, wrvars>>

\* main.py:164-165 with generate_img (main.py:96-108) run by the driver.
DriverGenerateImg ==
    /\ d_pc = "generate"
    /\ d_i < num_image
    /\ IF fault = "render_panic"
           THEN /\ d_pc' = "raised"
                /\ fatal_raised' = TRUE
                /\ UNCHANGED <<d_i, data_queue>>
           ELSE /\ data_queue' = Append(data_queue, Item(d_i + 1))
                /\ d_i' = d_i + 1
                /\ d_pc' = IF d_i + 1 = num_image THEN "put_stop" ELSE "generate"
                /\ UNCHANGED fatal_raised
    /\ UNCHANGED <<cfgvars, poolvars, wrvars>>

\* The retry wrapper of Render.__call__ around the raise, in the driver.
DriverRenderRetry ==
    /\ d_pc = "raised"
    /\ d_pc' = IF RetryPolicy("PanicError") = "retry" THEN "generate" ELSE "failed"
    /\ UNCHANGED <<cfgvars, d_i, data_queue, poolvars, wrvars, fatal_raised>>

\* main.py:166 and main.py:180
DriverPutStop ==
    /\ d_pc = "put_stop"
    /\ data_queue' = Append(data_queue, STOP_TOKEN)
    /\ d_pc' = "join_writer"
    /\ UNCHANGED <<cfgvars, d_i, poolvars, wrvars, fatal_raised>>

\* A join that returns while the writer is still running.
DriverJoinWriterNoWait ==
    /\ d_pc = "join_writer"
    /\ d_pc' = "done"
    /\ UNCHANGED <<cfgvars, d_i, data_queue, poolvars, wrvars, fatal_raised>>

\* main.py:167 and main.py:181
DriverJoinWriter ==
    /\ d_pc = "join_writer"
    /\ wr_pc = "done"
    /\ d_pc' = "done"
    /\ UNCHANGED <<cfgvars, d_i, data_queue, poolvars, wrvars, fatal_raised>>

\* main.py:169-173: the pool starts its workers, each runs the initializer.
PoolCreate ==
    /\ d_pc = "pool"
    /\ w_pc' = [w \in Workers |-> "setup"]
    /\ d_pc' = "submit"
    /\ UNCHANGED <<cfgvars, d_i, data_queue, taskqueue, outstanding, task_errors, w_task,
                   wrvars, fatal_raised>>

\* main.py:174-175: apply_async; the AsyncResult is dropped.  After the last
\* submission the driver closes the pool and joins it (main.py:177-178).
PoolApplyAsync ==
    /\ d_pc = "submit"
    /\ d_i < num_image
    /\ taskqueue' = Append(taskqueue, d_i + 1)
    /\ outstanding' = outstanding + 1
    /\ d_i' = d_i + 1
    /\ d_pc' = IF d_i + 1 = num_image THEN "pool_join" ELSE "submit"
    /\ UNCHANGED <<cfgvars, data_queue, task_errors, w_pc, w_task, wrvars, fatal_raised>>

\* A join that does not wait for the submitted tasks.
PoolJoinEarly ==
    /\ d_pc = "pool_join"
    /\ w_pc' = [w \in Workers |-> "exited"]
    /\ d_pc' = "put_stop"
    /\ UNCHANGED <<cfgvars, d_i, data_queue, taskqueue, outstanding, task_errors, w_task,
                   wrvars, fatal_raised>>

\* main.py:178: pool.join() returns once every submitted task has finished.
PoolJoin ==
    /\ d_pc = "pool_join"
    /\ outstanding = 0
    /\ w_pc' = [w \in Workers |-> "exited"]
    /\ d_pc' = "put_stop"
    /\ UNCHANGED <<cfgvars, d_i, data_queue, taskqueue, outstanding, task_errors, w_task,
                   wrvars, fatal_raised>>

\* The pool replaces a worker that died while tasks are outstanding.
PoolRespawn(w) ==
    /\ d_pc \in {"submit", "pool_join"}
    /\ w_pc[w] = "dead"
    /\ w_pc' = [w_pc EXCEPT ![w] = "setup"]
    /\ UNCHANGED <<cfgvars, d_pc, d_i, data_queue, taskqueue, outstanding, task_errors,
                   w_task, wrvars, fatal_raised>>

\* process_setup (main.py:111-128) as the pool's initializer: a PanicError of
\* Render.__init__ ends the worker process.
WorkerProcessSetup(w) ==
    /\ w_pc[w] = "setup"
    /\ IF fault = "setup_panic"
           THEN w_pc' = [w_pc EXCEPT ![w] = "dead"] /\ fatal_raised' = TRUE
           ELSE w_pc' = [w_pc EXCEPT ![w] = "idle"] /\ UNCHANGED fatal_raised
    /\ UNCHANGED <<cfgvars, d_pc, d_i, data_queue, taskqueue, outstanding, task_errors,
                   w_task, wrvars>>

\* A worker takes the next submitted task.
WorkerTake(w) ==
    /\ w_pc[w] = "idle"
    /\ taskqueue # <<>>
    /\ w_task' = [w_task EXCEPT ![w] = Head(taskqueue)]
    /\ taskqueue' = Tail(taskqueue)
    /\ w_pc' = [w_pc EXCEPT ![w] = "render"]
    /\ UNCHANGED <<cfgvars, d_pc, d_i, data_queue, outstanding, task_errors, wrvars,
                   fatal_raised>>

\* generate_img (main.py:96-108) in a worker: render(), then put the result.
WorkerGenerateImg(w) ==
    /\ w_pc[w] = "render"
    /\ IF fault = "render_panic"
           THEN /\ w_pc' = [w_pc EXCEPT ![w] = "raised"]
                /\ fatal_raised' = TRUE
                /\ UNCHANGED <<data_queue, outstanding>>
           ELSE /\ data_queue' = Append(data_queue, Item(w_task[w]))
                /\ outstanding' = outstanding - 1
                /\ w_pc' = [w_pc EXCEPT ![w] = "idle"]
                /\ UNCHANGED fatal_raised
    /\ UNCHANGED <<cfgvars, d_pc, d_i, taskqueue, task_errors, w_task, wrvars>>

\* The retry wrapper of Render.__call__ around the raise, in a worker.  Were
\* the exception let through, the task would end with it stored in the
\* AsyncResult that main.py:175 dropped.
WorkerRenderRetry(w) ==
    /\ w_pc[w] = "raised"
    /\ IF RetryPolicy("PanicError") = "retry"
           THEN /\ w_pc' = [w_pc EXCEPT ![w] = "render"]
                /\ UNCHANGED <<outstanding, task_errors>>
           ELSE /\ w_pc' = [w_pc EXCEPT ![w] = "idle"]
                /\ outstanding' = outstanding - 1
                /\ task_errors' = task_errors \cup {w_task[w]}
    /\ UNCHANGED <<cfgvars, d_pc, d_i, data_queue, taskqueue, w_task, wrvars, fatal_raised>>

\* main.py:69-71: open the dataset, read the count once.
WriterOpen ==
    /\ wr_pc = "open"
    /\ exist_count' = num_samples
    /\ count' = 0
    /\ wr_pc' = "loop"
    /\ UNCHANGED <<cfgvars, d_pc, d_i, data_queue, poolvars, m, db_data, num_samples, dequeued,
                   fatal_raised>>

\* main.py:75: the blocking get.
WriterGet ==
    /\ wr_pc = "loop"
    /\ data_queue # <<>>
    /\ m' = Head(data_queue)
    /\ data_queue' = Tail(data_queue)
    /\ dequeued' = IF Head(data_queue) = STOP_TOKEN THEN dequeued ELSE Append(dequeued, Head(data_queue))
    /\ wr_pc' = "got"
    /\ UNCHANGED <<cfgvars, d_pc, d_i, poolvars, exist_count, count, db_data, num_samples,
                   fatal_raised>>

\* main.py:76-82: break on the token, otherwise name, write and count.
WriterStep ==
    /\ wr_pc = "got"
    /\ IF WriterBreaks(m, count, num_image)
           THEN /\ wr_pc' = "after_loop"
                /\ UNCHANGED <<count, db_data>>
           ELSE /\ db_data' = Append(db_data, [name |-> WriterName(exist_count, count),
                                               image |-> m.image, label |-> m.label])
                /\ count' = count + 1
                /\ wr_pc' = "loop"
    /\ UNCHANGED <<cfgvars, d_pc, d_i, data_queue, poolvars, m, exist_count, num_samples,
                   dequeued, fatal_raised>>

\* A writer that stores the number it wrote, not the total.
WriterFinishCountOnly ==
    /\ wr_pc = "after_loop"
    /\ num_samples' = count
    /\ wr_pc' = "done"
    /\ UNCHANGED <<cfgvars, d_pc, d_i, data_queue, poolvars, m, exist_count, count,
                   db_data, dequeued, fatal_raised>>

\* main.py:88 and the close of the with block.
WriterFinish ==
    /\ wr_pc = "after_loop"
    /\ num_samples' = count + exist_count
    /\ wr_pc' = "done"
    /\ UNCHANGED <<cfgvars, d_pc, d_i, data_queue, poolvars, m, exist_count, count,
                   db_data, dequeued, fatal_raised>>

\* ------------------------------- Render construction and the label path

\* RenderCfg.corpus: one corpus, or a list of n corpora.
SingleCorpus == [list |-> FALSE, kind |-> "corpus", len |-> 1]
CorpusList(n) == [list |-> TRUE, kind |-> "corpus", len |-> n]
\* RenderCfg.corpus_effects: None, one Effects chain, or a list of n chains.
NoEffects == [list |-> FALSE, kind |-> "None", len |-> 0]
EffectsChain == [list |-> FALSE, kind |-> "Effects", len |-> 0]
EffectsList(n) == [list |-> TRUE, kind |-> "Effects", len |-> n]

\* utils/types.py:22-32
is_list(obj) == obj.list

\* Python truth of cfg.corpus_effects: None and the empty list are false,
\* an Effects object (no __len__, no __bool__) is true.
Truthy(obj) == obj.kind # "None" /\ ~(obj.list /\ obj.len = 0)

\* render.py:44-47: a list of one corpus is replaced by that corpus.
Unwrap(corpus) == IF corpus.list /\ corpus.len = 1 THEN SingleCorpus ELSE corpus

\* The checks without the comparison of the two lengths.
InitCheckNoLength(corpus, corpus_effects) ==
    IF is_list(corpus) /\ (Truthy(corpus_effects) /\ ~is_list(corpus_effects))
    THEN "corpus is list, corpus_effects is not list"
    ELSE IF ~is_list(corpus) /\ is_list(corpus_effects)
    THEN "corpus_effects is list, corpus is not list"
    ELSE "none"

\* render.py:49-61: which PanicError the constructor raises, or "none".
InitCheck(corpus, corpus_effects) ==
    IF is_list(corpus) /\ is_list(corpus_effects) /\ corpus.len # corpus_effects.len
    THEN "corpus length is not equal to corpus_effects length"
    ELSE IF is_list(corpus) /\ (Truthy(corpus_effects) /\ ~is_list(corpus_effects))
    THEN "corpus is list, corpus_effects is not list"
    ELSE IF ~is_list(corpus) /\ is_list(corpus_effects)
    THEN "corpus_effects is list, corpus is not list"
    ELSE "none"

\* render.py:331-340
should_apply_layout(corpus) == is_list(corpus) /\ corpus.len > 1

ExtraMergeTextsAll(texts) == merge_texts(texts)
\* extra_text_line.py:77-78
ExtraMergeTexts(texts) == texts[1]

\* Layout.apply of the configured layout on the mask boxes: the lists of
\* boxes it can return, none when the assertion of extra_text_line.py:34 fails.
LayoutApply(lay, boxes) ==
    IF lay = "same_line"
    THEN {SameLinePlace(SameLineExtend(boxes, gaps)) :
            gaps \in [1..(Len(boxes) - 1) -> {SameLineGap(boxes, s) : s \in UnitScales}]}
    ELSE IF Len(boxes) # 2 THEN {}
    ELSE {ExtraTrim(ExtraAbove(boxes[1], boxes[2], sm, se)) :
            sm \in MainScales, se \in UnitScales}
         \cup {ExtraTrim(ExtraBottom(boxes[1], boxes[2], sc)) : sc \in CutScales}

\* Layout.merge_texts of the configured layout.
LayoutMergeTexts(lay, texts) ==
    IF lay = "same_line" THEN merge_texts(texts) ELSE ExtraMergeTexts(texts)

\* RenderCfg.height as configured, and the widths of the images normed.
Heights32 == {-1, 2, 3}
ImgWidths == {1, 3}

normGrayOnly(image, gray, h) ==
    {[rows |-> image.rows, cols |-> image.cols, channels |-> IF gray THEN 1 ELSE 3]}

\* Render.norm (render.py:342-366): the shapes of the array returned, none
\* when cv2.resize raises for a width of 0.  The width is the float floor
\* division width // (height / cfg.height), which falls one short of the
\* exact quotient for some pairs whose ratio has no exact float.
norm(image, gray, h) ==
    LET channels == IF gray THEN 1 ELSE 3
        exact == Trunc(image.cols * h, image.rows)
        widths == IF (image.cols * h) % image.rows = 0 /\ image.rows % h # 0
                  THEN {exact, exact - 1} ELSE {exact}
    IN  IF h # -1 /\ h # image.rows
        THEN {[rows |-> h, cols |-> w, channels |-> channels] : w \in widths \ {0}}
        ELSE {[rows |-> image.rows, cols |-> image.cols, channels |-> channels]}

\* Texts the corpora return and the sizes of the masks drawn from them.
LabelTexts == {<<"a">>, <<"b">>, <<"a", "b">>}
MaskSize(text, h) == <<2 * Len(text) - 1, h>>

cvars == <<cfg_corpus, cfg_corpus_effects, cfg_layout, self_corpus, rc_pc, rc_exc,
           rc_sampled, font_texts, text_mask_bboxes, merged_text, rc_ret,
           cfg_gray, cfg_height, np_img>>

RenderCfgIdle ==
    /\ cfg_corpus = SingleCorpus
    /\ cfg_corpus_effects = NoEffects
    /\ cfg_layout = "same_line"
    /\ self_corpus = None
    /\ rc_pc = "idle"
    /\ rc_exc = "none"
    /\ rc_sampled = 0
    /\ font_texts = <<>>
    /\ text_mask_bboxes = <<>>
    /\ merged_text = None
    /\ rc_ret = None
    /\ cfg_gray = FALSE
    /\ cfg_height = -1
    /\ np_img = None

\* A RenderCfg as a configuration file can build it.
RenderCfgInit ==
    /\ cfg_corpus \in {SingleCorpus} \cup {CorpusList(n) : n \in 0..MaxBoxes}
    /\ cfg_corpus_effects \in {NoEffects, EffectsChain} \cup {EffectsList(n) : n \in 0..MaxBoxes}
    /\ cfg_layout \in {"same_line", "extra_text_line"}
    /\ self_corpus = None
    /\ rc_pc = "new"
    /\ rc_exc = "none"
    /\ rc_sampled = 0
    /\ font_texts = <<>>
    /\ text_mask_bboxes = <<>>
    /\ merged_text = None
    /\ rc_ret = None
    /\ cfg_gray \in BOOLEAN
    /\ cfg_height \in Heights32
    /\ np_img = None

\* Render.__init__ (render.py:41-61).
RenderConstruct ==
    /\ rc_pc = "new"
    /\ self_corpus' = Unwrap(cfg_corpus)
    /\ LET err == InitCheck(Unwrap(cfg_corpus), cfg_corpus_effects)
       IN  IF err # "none"
           THEN rc_pc' = "panic" /\ rc_exc' = "PanicError"
           ELSE rc_pc' = "ready" /\ UNCHANGED rc_exc
    /\ UNCHANGED <<cfg_gray, cfg_height, np_img, cfg_corpus, cfg_corpus_effects, cfg_layout, rc_sampled, font_texts,
                   text_mask_bboxes, merged_text, rc_ret>>

\* One attempt of Render.__call__ up to the layout: render.py:82-85, then
\* the samples of gen_multi_corpus (render.py:203) or gen_single_corpus; an
\* empty corpus list has no sample() to call.
RenderSampleTexts ==
    /\ rc_pc = "ready"
    /\ IF should_apply_layout(self_corpus)
       THEN /\ font_texts' \in [1..self_corpus.len -> LabelTexts]
            /\ rc_sampled' = rc_sampled + self_corpus.len
            /\ rc_pc' = "layout"
            /\ UNCHANGED rc_exc
       ELSE IF is_list(self_corpus)
       THEN /\ rc_exc' = "AttributeError"
            /\ rc_pc' = "raised"
            /\ UNCHANGED <<font_texts, rc_sampled>>
       ELSE /\ font_texts' \in [1..1 -> LabelTexts]
            /\ rc_sampled' = rc_sampled + 1
            /\ rc_pc' = "single"
            /\ UNCHANGED rc_exc
    /\ text_mask_bboxes' = <<>>
    /\ merged_text' = None
    /\ UNCHANGED <<cfg_gray, cfg_height, np_img, cfg_corpus, cfg_corpus_effects, cfg_layout, self_corpus, rc_ret>>

\* render.py:231-239 with Layout.__call__ (layout.py:48): apply on the mask
\* boxes, then merge_texts.
RenderLayoutCall ==
    /\ rc_pc = "layout"
    /\ \E h \in {1, MaxH} :
         LET boxes == [i \in 1..Len(font_texts) |-> from_size(MaskSize(font_texts[i], h))]
             outs == LayoutApply(cfg_layout, boxes)
         IN  IF outs = {}
             THEN /\ rc_exc' = "AssertionError"
                  /\ rc_pc' = "raised"
                  /\ UNCHANGED <<text_mask_bboxes, merged_text>>
             ELSE /\ text_mask_bboxes' \in outs
                  /\ merged_text' = LayoutMergeTexts(cfg_layout, font_texts)
                  /\ rc_pc' = "laid"
                  /\ UNCHANGED rc_exc
    /\ UNCHANGED <<cfg_gray, cfg_height, np_img, cfg_corpus, cfg_corpus_effects, cfg_layout, self_corpus, rc_sampled,
                   font_texts, rc_ret>>

\* render.py:98-116 with norm, and the text of render.py:179 or the merged
\* text of the layout: the image and the label the call returns.
RenderReturnLabel ==
    /\ rc_pc \in {"laid", "single"}
    /\ \E rows \in 1..MaxH, cols \in ImgWidths :
         LET image == [rows |-> rows, cols |-> cols, channels |-> 3]
             outs == norm(image, cfg_gray, cfg_height)
         IN  /\ np_img' = image
             /\ IF outs = {}
                THEN /\ rc_exc' = "cv2.error"
                     /\ rc_pc' = "raised"
                     /\ UNCHANGED rc_ret
                ELSE /\ rc_ret' \in {[label |-> IF rc_pc = "laid" THEN merged_text
                                               ELSE font_texts[1],
                                      image |-> o] : o \in outs}
                     /\ rc_pc' = "returned"
                     /\ UNCHANGED rc_exc
    /\ UNCHANGED <<cfg_gray, cfg_height, cfg_corpus, cfg_corpus_effects, cfg_layout,
                   self_corpus, rc_sampled, font_texts, text_mask_bboxes, merged_text>>

\* render.py:65: the retry wrapper after an exception of the attempt.
RenderCfgRetry ==
    /\ rc_pc = "raised"
    /\ rc_sampled < MaxSampled
    /\ rc_pc' = IF RetryPolicy(rc_exc) = "retry" THEN "ready" ELSE "aborted"
    /\ UNCHANGED <<cfg_gray, cfg_height, np_img, cfg_corpus, cfg_corpus_effects, cfg_layout,
                   self_corpus, rc_exc,
                   rc_sampled, font_texts, text_mask_bboxes, merged_text, rc_ret>>

\* ------------------------------------------------------ load_chars_file

\* utils.py:17
SPACE_CHAR == " "
\* What str.strip() removes, as far as the lines below hold it.
Whitespace == {" ", "\t"}

\* line.strip()
RECURSIVE LStrip(_)
LStrip(line) ==
    IF line # <<>> /\ Head(line) \in Whitespace THEN LStrip(Tail(line)) ELSE line
RECURSIVE RStrip(_)
RStrip(line) ==
    IF line # <<>> /\ line[Len(line)] \in Whitespace
    THEN RStrip(SubSeq(line, 1, Len(line) - 1)) ELSE line
Strip(line) == RStrip(LStrip(line))

\* Lines of a chars file, without their line ends.
FileLines == {<<>>, <<" ">>, <<"\t">>, <<"a">>, <<"b">>, <<"a", " ">>, <<" ", " ">>, <<"a", "b">>}

LineInvalidOver2(line_striped) == Len(line_striped) > 2
\* utils.py:223
LineInvalid(line_striped) == Len(line_striped) > 1

IsSpaceLineBlank(line, line_striped) == Len(line_striped) = 0
\* utils.py:228
IsSpaceLine(line, line_striped) == Len(line_striped) = 0 /\ SPACE_CHAR \in Range(line)

\* set("".join(lines))
CharsOf(lines) == UNION {Range(lines[i]) : i \in 1..Len(lines)}

lcvars == <<chars_file, lc_pc, lc_i, assumed_space, lc_lines, lc_exc, lc_ret>>

LoadCharsIdle ==
    /\ chars_file = <<>>
    /\ lc_pc = "idle"
    /\ lc_i = 1
    /\ assumed_space = FALSE
    /\ lc_lines = <<>>
    /\ lc_exc = "none"
    /\ lc_ret = {}

\* utils.py:217-220: the file is read, the loop is about to start.
LoadCharsInit ==
    /\ \E n \in 0..MaxLines : chars_file \in [1..n -> FileLines]
    /\ lc_pc = "loop"
    /\ lc_i = 1
    /\ assumed_space = FALSE
    /\ lc_lines = <<>>
    /\ lc_exc = "none"
    /\ lc_ret = {}

\* utils.py:221-238: one iteration of the loop over the lines.
LoadCharsLine ==
    /\ lc_pc = "loop"
    /\ lc_i <= Len(chars_file)
    /\ LET line == chars_file[lc_i]
           line_striped == Strip(line)
       IN  IF LineInvalid(line_striped)
           THEN /\ lc_pc' = "panic"
                /\ lc_exc' = "make sure one char one line"
                /\ UNCHANGED <<assumed_space, lc_lines, lc_i>>
           ELSE IF IsSpaceLine(line, line_striped)
           THEN IF assumed_space
                THEN /\ lc_pc' = "panic"
                     /\ lc_exc' = "Find two space"
                     /\ UNCHANGED <<assumed_space, lc_lines, lc_i>>
                ELSE /\ assumed_space' = TRUE
                     /\ lc_lines' = Append(lc_lines, <<SPACE_CHAR>>)
                     /\ lc_i' = lc_i + 1
                     /\ UNCHANGED <<lc_pc, lc_exc>>
           ELSE /\ lc_lines' = Append(lc_lines, line_striped)
                /\ lc_i' = lc_i + 1
                /\ UNCHANGED <<lc_pc, lc_exc, assumed_space>>
    /\ UNCHANGED <<chars_file, lc_ret>>

\* utils.py:240-244
LoadCharsReturn ==
    /\ lc_pc = "loop"
    /\ lc_i > Len(chars_file)
    /\ lc_ret' = CharsOf(lc_lines)
    /\ lc_pc' = "returned"
    /\ UNCHANGED <<chars_file, lc_i, assumed_space, lc_lines, lc_exc>>

\* ----------------------------------------------------------- CharCorpus

NpRandintInclusive(low, high) == low..high
\* np.random.randint(low, high): an integer of [low, high); ValueError when
\* the range is empty.
NpRandint(low, high) == low..(high - 1)

\* char_corpus.py:75: the start indices get_text draws from, for a length.
GetTextStarts(text, length) == NpRandint(0, Len(text) - length)

ccvars == <<cc_text, cc_length, cc_pc, cc_exc, cc_ret>>

CharCorpusIdle ==
    /\ cc_text = <<>>
    /\ cc_length = <<0, 0>>
    /\ cc_pc = "idle"
    /\ cc_exc = "none"
    /\ cc_ret = None

\* char_corpus.py:49-68: the text of the files, filtered if asked for, and
\* cfg.length.
CharCorpusInit ==
    /\ \E n \in 0..MaxText : cc_text \in [1..n -> Chars]
    /\ cc_length \in {<<lo, hi>> \in (0..MaxText) \X (0..(MaxText + 1)) : lo <= hi}
    /\ cc_pc = "new"
    /\ cc_exc = "none"
    /\ cc_ret = None

\* char_corpus.py:70-71
CharCorpusConstruct ==
    /\ cc_pc = "new"
    /\ IF Len(cc_text) < cc_length[2]
       THEN cc_pc' = "panic" /\ cc_exc' = "PanicError"
       ELSE cc_pc' = "ready" /\ UNCHANGED cc_exc
    /\ UNCHANGED <<cc_text, cc_length, cc_ret>>

\* CharCorpus.get_text (char_corpus.py:73-77), called once per sample attempt.
CharCorpusGetText ==
    /\ cc_pc \in {"ready", "returned", "raised"}
    /\ LET lengths == NpRandint(cc_length[1], cc_length[2])
       IN  IF lengths = {}
           THEN cc_pc' = "raised" /\ cc_exc' = "ValueError" /\ UNCHANGED cc_ret
           ELSE \E length \in lengths :
                  LET starts == GetTextStarts(cc_text, length)
                  IN  IF starts = {}
                      THEN cc_pc' = "raised" /\ cc_exc' = "ValueError" /\ UNCHANGED cc_ret
                      ELSE \E start \in starts :
                             /\ cc_ret' = [word |-> SubSeq(cc_text, start + 1, start + length)]
                             /\ cc_pc' = "returned"
                             /\ UNCHANGED cc_exc
    /\ UNCHANGED <<cc_text, cc_length>>

\* ----------------------------------------------------------- EnumCorpus

\* The text files an EnumCorpusCfg can name, as their lines.
EnumFiles == [f \in {"t1.txt", "t2.txt"} |->
                 IF f = "t1.txt" THEN <<(<<"a">>), (<<"a", "b">>)>> ELSE <<(<<"b", " ">>)>>]

\* enum_corpus.py:59-63: the stripped lines of the files, in order.
RECURSIVE ReadTexts(_)
ReadTexts(paths) ==
    IF paths = <<>> THEN <<>>
    ELSE [i \in 1..Len(EnumFiles[Head(paths)]) |-> Strip(EnumFiles[Head(paths)][i])]
             \o ReadTexts(Tail(paths))

EnumCheckNeitherOnly(text_paths, items) ==
    IF Len(text_paths) = 0 /\ Len(items) = 0
    THEN "text_paths or items must not be empty"
    ELSE "none"

\* enum_corpus.py:51-55: which PanicError the constructor raises, or "none".
EnumCheck(text_paths, items) ==
    IF Len(text_paths) = 0 /\ Len(items) = 0
    THEN "text_paths or items must not be empty"
    ELSE IF Len(text_paths) # 0 /\ Len(items) # 0
    THEN "only one of text_paths or items can be set"
    ELSE "none"

ecvars == <<ec_text_paths, ec_items, ec_pc, ec_exc, ec_texts, ec_ret>>

EnumCorpusIdle ==
    /\ ec_text_paths = <<>>
    /\ ec_items = <<>>
    /\ ec_pc = "idle"
    /\ ec_exc = "none"
    /\ ec_texts = <<>>
    /\ ec_ret = None

\* An EnumCorpusCfg: text_paths and items, each possibly empty (the default).
EnumCorpusInit ==
    /\ \E n \in 0..MaxItems : ec_text_paths \in [1..n -> DOMAIN EnumFiles]
    /\ \E n \in 0..MaxItems : ec_items \in [1..n -> LabelTexts]
    /\ ec_pc = "new"
    /\ ec_exc = "none"
    /\ ec_texts = <<>>
    /\ ec_ret = None

\* EnumCorpus.__init__ (enum_corpus.py:47-66).
EnumCorpusConstruct ==
    /\ ec_pc = "new"
    /\ LET err == EnumCheck(ec_text_paths, ec_items)
       IN  IF err # "none"
           THEN /\ ec_pc' = "panic"
                /\ ec_exc' = err
                /\ UNCHANGED ec_texts
           ELSE /\ ec_texts' = IF Len(ec_text_paths) # 0 THEN ReadTexts(ec_text_paths)
                               ELSE ec_items
                /\ ec_pc' = "ready"
                /\ UNCHANGED ec_exc
    /\ UNCHANGED <<ec_text_paths, ec_items, ec_ret>>

\* EnumCorpus.get_text (enum_corpus.py:78-80) with num_pick = 1 and the
\* default join_str.
EnumCorpusGetText ==
    /\ ec_pc \in {"ready", "returned"}
    /\ \E i \in NpRandint(0, Len(ec_texts)) : ec_ret' = [text |-> ec_texts[i + 1]]
    /\ ec_pc' = "returned"
    /\ UNCHANGED <<ec_text_paths, ec_items, ec_exc, ec_texts>>

\* ------------------------------- FontManager: refining and filtering fonts

\* The characters of the charsets and of the fonts' cmap tables.
FontChars == {"a", "b", " "}
\* What load_chars_file returns for the chars files used.
Charsets == {{"a"}, {"a", " "}, {"a", "b"}, {"a", "b", " "}}
\* For one font, the characters whose getmask(c).getbbox() is None.
BlankMasks == {{}, {" "}, {"a", " "}, {"b", " "}}
MinSupportChars == {1, 2}

white_listEmpty == {}

\* font_manager.py:92
white_list == {" "}

\* font_manager.py:96-106 for one font: the characters removed from its
\* support set.
removed_chars(chars, cs, blank) ==
    {c \in chars \cap cs : c \notin white_list /\ c \in blank /\ c \in chars}

ffvars == <<declared, charset, glyph_blank, font_support_chars_intersection_with_chars,
            min_support_chars, ff_pc>>

FontFilterIdle ==
    /\ declared = <<>>
    /\ charset = {}
    /\ glyph_blank = <<>>
    /\ font_support_chars_intersection_with_chars = <<>>
    /\ min_support_chars = 1
    /\ ff_pc = "idle"

\* A constructed FontManager (font_manager.py:16-46) with two fonts, after
\* _load_font_support_chars filled the cache from the cmap tables.
FontFilterInit ==
    /\ font_paths = <<"f1.ttf", "f2.ttf">>
    /\ font_support_chars_cache \in [Fonts -> SUBSET FontChars]
    /\ declared = font_support_chars_cache
    /\ charset \in Charsets
    /\ glyph_blank \in [Fonts -> BlankMasks]
    /\ font_support_chars_intersection_with_chars = <<>>
    /\ min_support_chars \in MinSupportChars
    /\ ff_pc = "constructed"

\* FontManager.update_font_support_chars (font_manager.py:83-121); chars is
\* the copy of the font's own support set taken at line 98.
UpdateFontSupportChars ==
    /\ ff_pc = "constructed"
    /\ font_support_chars_cache' =
           [f \in Fonts |-> font_support_chars_cache[f] \
                               removed_chars(font_support_chars_cache[f], charset, glyph_blank[f])]
    /\ font_support_chars_intersection_with_chars' =
           [f \in Fonts |-> LET chars == font_support_chars_cache[f]
                            IN  font_support_chars_cache'[f] \cap chars]
    /\ ff_pc' = "updated"
    /\ UNCHANGED <<font_paths, declared, charset, glyph_blank, min_support_chars>>

\* FontManager.filter_font_path (font_manager.py:123-149).
FilterFontPath ==
    /\ ff_pc = "updated"
    /\ font_paths' = SelectSeq(font_paths,
           LAMBDA f : ~(Cardinality(font_support_chars_intersection_with_chars[f])
                          < min_support_chars))
    /\ ff_pc' = "filtered"
    /\ UNCHANGED <<font_support_chars_cache, declared, charset, glyph_blank,
                   font_support_chars_intersection_with_chars, min_support_chars>>

\* ------------------------------------------ FontManager: the handle cache

\* functools.lru_cache() as applied at font_manager.py:173: maxsize is left
\* at its default.
LruMaxSize == 128

\* The font file whose handles are requested.
HandlePath == "f1.ttf"

LruEvictEarly(order) ==
    IF Len(order) >= LruMaxSize - 1 THEN Tail(order) ELSE order

\* lru_cache on a miss: with the cache full, the least recently used key
\* (the head of the order) makes room for the new one.
LruEvict(order) ==
    IF Len(order) >= LruMaxSize THEN Tail(order) ELSE order

\* lru_cache on a hit: the key becomes the most recently used.
LruTouch(order, key) ==
    Append(SelectSeq(order, LAMBDA k : k # key), key)

Restrict(f, S) == [k \in S |-> f[k]]

hcvars == <<hc_order, hc_handle, hc_made, hc_parsed, hc_first, hc_first_handle,
            hc_prev, hc_others, hc_ret>>

\* A FontManager whose _get_font was never called; the state of the
\* component when it is not driven is the same.
HandleCacheInit ==
    /\ hc_order = <<>>
    /\ hc_handle = <<>>
    /\ hc_made = 0
    /\ hc_parsed = <<>>
    /\ hc_first = {}
    /\ hc_first_handle = <<>>
    /\ hc_prev = 0
    /\ hc_others = {}
    /\ hc_ret = None

\* The pairs a caller asks for next: the first pair requested, again, or
\* the pair of the smallest size never requested.
Requestable ==
    LET fresh == Cardinality(DOMAIN hc_parsed) + 1
    IN  hc_first \cup {<<HandlePath, sz>> : sz \in {fresh} \cap 1..MaxFontSize}

\* FontManager._get_font(font_path, font_size) (font_manager.py:173-176):
\* a hit returns the cached handle, a miss calls ImageFont.truetype, which
\* parses the file into a new handle, and caches it.
GetFontHandle ==
    \E key \in Requestable :
        LET hit == key \in DOMAIN hc_handle
            handle == IF hit THEN hc_handle[key] ELSE hc_made + 1
            kept == IF hit THEN LruTouch(hc_order, key) ELSE Append(LruEvict(hc_order), key)
            repeat == key \in DOMAIN hc_parsed
            first == IF hc_first = {} THEN TRUE ELSE key \in hc_first
        IN  /\ hc_order' = kept
            /\ hc_handle' = Restrict((key :> handle) @@ hc_handle, Range(kept))
            /\ hc_made' = IF hit THEN hc_made ELSE hc_made + 1
            /\ hc_parsed' = (key :> (IF repeat THEN hc_parsed[key] ELSE 0) + (IF hit THEN 0 ELSE 1))
                                @@ hc_parsed
            /\ hc_first' = IF hc_first = {} THEN {key} ELSE hc_first
            /\ hc_first_handle' = IF repeat THEN hc_first_handle
                                  ELSE (key :> handle) @@ hc_first_handle
            /\ hc_prev' = IF first THEN handle ELSE hc_prev
            /\ hc_others' = IF first THEN {} ELSE hc_others \cup {key}
            /\ hc_ret' = [key |-> key, handle |-> handle, parsed |-> ~hit, repeat |-> repeat,
                          others |-> IF first THEN Cardinality(hc_others) ELSE 0,
                          prev |-> IF first THEN hc_prev ELSE 0]


\* ------------------------------- the generator configurations in sequence

\* render() failing for a while before it succeeds, besides the faults that
\* never go away.
BatchFaults == Faults \cup {"transient"}

gvars == <<batch, failures, q_batch, m_batch, wr_batch, alive, routed, stored>>

BatchIdle ==
    /\ batch = 0
    /\ failures = 0
    /\ q_batch = <<>>
    /\ m_batch = 0
    /\ wr_batch = 0
    /\ alive = 0
    /\ routed = <<>>
    /\ stored = {}

\* main.py:146-155: the queue is made once, before the loop over the
\* generator configurations; the first configuration is at hand.
BatchInit ==
    /\ num_processes \in ProcessCounts
    /\ num_image \in 1..MaxImages
    /\ fault \in BatchFaults
    /\ d_pc = "start"
    /\ d_i = 0
    /\ data_queue = <<>>
    /\ taskqueue = <<>>
    /\ outstanding = 0
    /\ task_errors = {}
    /\ w_pc = [w \in Workers |-> "none"]
    /\ w_task = [w \in Workers |-> 0]
    /\ wr_pc = "unstarted"
    /\ m = None
    /\ exist_count = 0
    /\ count = 0
    /\ db_data = <<>>
    /\ num_samples \in ExistCounts
    /\ dequeued = <<>>
    /\ fatal_raised = FALSE
    /\ batch = 1
    /\ failures = 0
    /\ q_batch = <<>>
    /\ m_batch = 0
    /\ wr_batch = 0
    /\ alive = 0
    /\ routed = <<>>
    /\ stored = {}

\* What a step of the driver, of a worker or of the writer does to the
\* record kept of it: in which configuration each queue element was put
\* (main.py:108, 166, 180), which DBWriterProcess is running (main.py:157-160,
\* run returning at main.py:93), and which message went to which writer's
\* dataset (main.py:81).
Track ==
    /\ q_batch' = IF Len(data_queue') > Len(data_queue) THEN Append(q_batch, batch)
                  ELSE IF Len(data_queue') < Len(data_queue) THEN Tail(q_batch)
                  ELSE q_batch
    /\ m_batch' = IF Len(data_queue') < Len(data_queue) THEN Head(q_batch) ELSE m_batch
    /\ wr_batch' = IF wr_pc = "unstarted" /\ wr_pc' = "open" THEN batch ELSE wr_batch
    /\ alive' = IF wr_pc = "unstarted" /\ wr_pc' = "open" THEN alive + 1
                ELSE IF wr_pc = "after_loop" /\ wr_pc' = "done" THEN alive - 1
                ELSE alive
    /\ routed' = IF Len(db_data') > Len(db_data)
                 THEN Append(routed, [put_in |-> m_batch, written_by |-> wr_batch])
                 ELSE routed
    /\ UNCHANGED <<batch, failures, stored>>

\* render() raises an exception that a later attempt does not meet
\* (render.py:117-119), in the driver.
DriverRenderFails ==
    /\ d_pc = "generate"
    /\ d_i < num_image
    /\ fault = "transient"
    /\ failures < MaxFailures
    /\ d_pc' = "raised"
    /\ failures' = failures + 1
    /\ UNCHANGED <<cfgvars, d_i, data_queue, poolvars, wrvars, fatal_raised>>
    /\ UNCHANGED <<batch, q_batch, m_batch, wr_batch, alive, routed, stored>>

\* The same in a worker.
WorkerRenderFails(w) ==
    /\ w_pc[w] = "render"
    /\ fault = "transient"
    /\ failures < MaxFailures
    /\ w_pc' = [w_pc EXCEPT ![w] = "raised"]
    /\ failures' = failures + 1
    /\ UNCHANGED <<cfgvars, d_pc, d_i, data_queue, taskqueue, outstanding, task_errors,
                   w_task, wrvars, fatal_raised>>
    /\ UNCHANGED <<batch, q_batch, m_batch, wr_batch, alive, routed, stored>>

\* main.py:156: the next iteration of the loop over the generator
\* configurations, after db_writer_process.join() (main.py:167, 181).  The
\* pool was left, the writer process has ended; the queue is the same one.
\* The next save_dir is the same dataset or an empty one.
DriverNextCfg ==
    /\ d_pc = "done"
    /\ batch < MaxBatches
    /\ batch' = batch + 1
    /\ num_image' \in 1..MaxImages
    /\ fault' \in BatchFaults
    /\ d_pc' = "start"
    /\ d_i' = 0
    /\ taskqueue' = <<>>
    /\ outstanding' = 0
    /\ task_errors' = {}
    /\ w_pc' = [w \in Workers |-> "none"]
    /\ w_task' = [w \in Workers |-> 0]
    /\ wr_pc' = "unstarted"
    /\ m' = None
    /\ exist_count' = 0
    /\ count' = 0
    /\ db_data' = <<>>
    /\ dequeued' = <<>>
    /\ \E same \in BOOLEAN :
          IF same
          THEN /\ stored' = stored \cup {db_data[k].name : k \in 1..Len(db_data)}
               /\ UNCHANGED num_samples
          ELSE /\ stored' = {}
               /\ num_samples' = 0
    /\ failures' = 0
    /\ routed' = <<>>
    /\ UNCHANGED <<num_processes, data_queue, fatal_raised, q_batch, m_batch, wr_batch, alive>>

\* ------------------------------------------------------------------------
\* PerspectiveTransform (utils/math_utils.py:91-287) and its two callers in
\* Render (render.py:160-175, 246-256).
\*
\* A homography is a function of the rotation, the scale, the field of view
\* and the size it was generated for; with the default scale and field of
\* view (config/__init__.py:29-30) it is identified here by <<xyz, size>>.
\* Angles are in tenths of a degree.
MaskSizes == {<<1, 1>>, <<3, 1>>, <<2, 2>>, <<4, 3>>}
TransformCfgs == {"Fixed", "Uniform"}

\* cfg.get_xyz(): what one draw of the rotation can give.
get_xyz(cfg) ==
    IF cfg = "Fixed" THEN {<<150, 150, 12>>}
    ELSE {<<-100, 20, 0>>, <<0, 0, 0>>, <<60, -50, 15>>}

\* int(sideLength) for sideLength = scale * d / cos(fovy / 2), d the diagonal
\* of the size, scale = 1, fovy = 50: cos(25 deg) = 0.906 to three places.
SideLength(size) ==
    LET d2 == size[1] * size[1] + size[2] * size[2]
    IN  CHOOSE n \in 0..(2 * (size[1] + size[2])) :
            /\ n * n * 906 * 906 <= d2 * 1000 * 1000
            /\ (n + 1) * (n + 1) * 906 * 906 > d2 * 1000 * 1000

\* gen_warp_matrix that computes the matrix and stores nothing.
gen_warp_matrixNoStore(xyz, size, M33, sl) == [M33 |-> M33, sl |-> sl]

\* gen_warp_matrix(width, height): the attributes M33 and sl it leaves on the
\* instance, each a set of at most one value.
gen_warp_matrix(xyz, size, M33, sl) ==
    [M33 |-> {<<xyz, size>>}, sl |-> {SideLength(size)}]

ptvars == <<pt_caller, pt_cfg, pt_canvas, pt_pc, pt_xyz, pt_M33, pt_sl, pt_draws,
            pt_gens, pt_last, pt_used, pt_exc>>

PTIdle ==
    /\ pt_caller = "none" /\ pt_cfg = "None" /\ pt_canvas = <<1, 1>>
    /\ pt_pc = "idle" /\ pt_xyz = {} /\ pt_M33 = {} /\ pt_sl = {}
    /\ pt_draws = 0 /\ pt_gens = 0 /\ pt_last = {} /\ pt_used = {} /\ pt_exc = None

\* Either a render call at the point where the mask to warp exists, with any
\* perspective_transform configuration, or a client that owns a configuration
\* and calls the methods in any order.
PTInit ==
    /\ pt_caller \in {"gen_single_corpus", "gen_multi_corpus", "direct"}
    /\ pt_cfg \in IF pt_caller = "direct" THEN TransformCfgs
                  ELSE TransformCfgs \cup {"None"}
    /\ pt_canvas \in MaskSizes
    /\ pt_pc = "start" /\ pt_xyz = {} /\ pt_M33 = {} /\ pt_sl = {}
    /\ pt_draws = 0 /\ pt_gens = 0 /\ pt_last = {} /\ pt_used = {} /\ pt_exc = None

\* PerspectiveTransform(cfg): a new instance, its rotation drawn once, no
\* matrix and no side length yet.
PTConstruct ==
    /\ pt_cfg # "None"
    /\ IF pt_caller = "direct" THEN pt_pc \in {"start", "constructed", "sized", "warped", "raised"}
       ELSE pt_pc = "start"
    /\ pt_xyz' \in {{r} : r \in get_xyz(pt_cfg)}
    /\ pt_draws' = IF pt_caller = "direct" THEN 1 ELSE pt_draws + 1
    /\ pt_M33' = {} /\ pt_sl' = {}
    /\ pt_gens' = 0 /\ pt_last' = {}
    /\ pt_pc' = "constructed" /\ pt_exc' = None
    /\ UNCHANGED <<pt_caller, pt_cfg, pt_canvas, pt_used>>

\* get_transformed_size(size): runs gen_warp_matrix for the size.  Render
\* passes the size of the mask and discards the returned size.
PTGetTransformedSize ==
    /\ IF pt_caller = "direct" THEN pt_pc \in {"constructed", "sized", "warped", "raised"}
       ELSE pt_pc = "constructed"
    /\ \E size \in IF pt_caller = "direct" THEN MaskSizes ELSE {pt_canvas} :
         \E xyz \in pt_xyz :
           LET g == gen_warp_matrix(xyz, size, pt_M33, pt_sl)
           IN  /\ pt_M33' = g.M33
               /\ pt_sl' = g.sl
               /\ pt_last' = {<<xyz, size>>}
    /\ pt_gens' = 1
    /\ pt_pc' = "sized" /\ pt_exc' = None
    /\ UNCHANGED <<pt_caller, pt_cfg, pt_canvas, pt_xyz, pt_draws, pt_used>>

\* do_warp_perspective(pil_img): warps with self.M33 into a square of side
\* self.sl; reading an attribute that was never set raises AttributeError.
PTDoWarpPerspective ==
    /\ IF pt_caller = "direct" THEN pt_pc \in {"constructed", "sized", "warped"}
       ELSE pt_pc = "sized"
    /\ \E img \in IF pt_caller = "direct" THEN MaskSizes ELSE {pt_canvas} :
         IF {} \in {pt_M33, pt_sl}
         THEN /\ pt_pc' = "raised" /\ pt_exc' = "AttributeError"
              /\ pt_used' = {}
         ELSE /\ pt_pc' = "warped" /\ pt_exc' = None
              /\ pt_used' = {[M33 |-> m33, sl |-> s, img |-> img] : m33 \in pt_M33, s \in pt_sl}
    /\ UNCHANGED <<pt_caller, pt_cfg, pt_canvas, pt_xyz, pt_M33, pt_sl, pt_draws,
                   pt_gens, pt_last>>

\* perspective_transform is None: the mask is used as it is.
PTSkip ==
    /\ pt_caller # "direct" /\ pt_cfg = "None" /\ pt_pc = "start"
    /\ pt_pc' = "skipped"
    /\ UNCHANGED <<pt_caller, pt_cfg, pt_canvas, pt_xyz, pt_M33, pt_sl, pt_draws,
                   pt_gens, pt_last, pt_used, pt_exc>>

\* The next render call of the same Render: another mask, nothing kept of the
\* transformer of the call before.
PTNextCall ==
    /\ pt_caller # "direct" /\ pt_pc \in {"warped", "skipped"}
    /\ pt_canvas' \in MaskSizes
    /\ pt_pc' = "start" /\ pt_draws' = 0 /\ pt_used' = {}
    /\ UNCHANGED <<pt_caller, pt_cfg, pt_xyz, pt_M33, pt_sl, pt_gens, pt_last, pt_exc>>

\* ------------------------------------------------------------------------
\* The effects that enlarge the canvas: Padding (effect/padding.py) and the
\* Line variants that draw outside the text (effect/line.py:103-215).
\* A canvas is its size <<width, height>>.
PadRatiosAll == PadRatios \cup {<<1, 20>>, <<3, 10>>}
LineThickness == <<1, 3>>
LineOffsets == <<0, MaxOffset + 1>>

\* _get_tb_param / _get_lr_param: <<in_offset, thickness, out_offset>>.
LineParams ==
    NpRandint(LineOffsets[1], LineOffsets[2])
        \X NpRandint(LineThickness[1], LineThickness[2])
        \X NpRandint(LineOffsets[1], LineOffsets[2])
NoParam == <<0, 0, 0>>

apply_bottom(img, B, p) ==
    LET new_h == img[2] + p[2] + p[1] + p[3]
    IN  [img |-> <<img[1], new_h>>,
         bbox |-> BBox(B.left, B.top, B.right, B.bottom + p[1] + p[2] + p[3])]

\* apply_top: the new height leaves the outer offset out (line.py:129).
apply_top(img, B, p) ==
    LET new_h == img[2] + p[2] + p[1]
        moved == offset_(B, left_bottom(B), <<0, new_h>>)
    IN  [img |-> <<img[1], new_h>>,
         bbox |-> BBox(moved.left, moved.top - p[1] - p[2] - p[3], moved.right, moved.bottom)]

apply_right(img, B, p) ==
    LET new_w == img[1] + p[2] + p[1] + p[3]
    IN  [img |-> <<new_w, img[2]>>,
         bbox |-> BBox(B.left, B.top, B.right + p[1] + p[2] + p[3], B.bottom)]

apply_left(img, B, p) ==
    LET new_w == img[1] + p[2] + p[1] + p[3]
        moved == offset_(B, right_top(B), <<new_w, 0>>)
    IN  [img |-> <<new_w, img[2]>>,
         bbox |-> BBox(moved.left - p[1] - p[2] - p[3], moved.top, moved.right, moved.bottom)]

LineFuncs == {"apply_top", "apply_bottom", "apply_left", "apply_right", "apply_top_left",
              "apply_top_right", "apply_bottom_left", "apply_bottom_right"}

\* The variant func with the top-bottom parameters tb and the left-right
\* parameters lr; a corner variant runs its second half on what the first
\* returned.
LineVariant(func, img, B, tb, lr) ==
    CASE func = "apply_top" -> apply_top(img, B, tb)
      [] func = "apply_bottom" -> apply_bottom(img, B, tb)
      [] func = "apply_left" -> apply_left(img, B, lr)
      [] func = "apply_right" -> apply_right(img, B, lr)
      [] func = "apply_top_left" ->
           LET ret == apply_top(img, B, tb) IN apply_left(ret.img, ret.bbox, lr)
      [] func = "apply_top_right" ->
           LET ret == apply_top(img, B, tb) IN apply_right(ret.img, ret.bbox, lr)
      [] func = "apply_bottom_left" ->
           LET ret == apply_bottom(img, B, tb) IN apply_left(ret.img, ret.bbox, lr)
      [] func = "apply_bottom_right" ->
           LET ret == apply_bottom(img, B, tb) IN apply_right(ret.img, ret.bbox, lr)

UsesTb(func) == func \notin {"apply_left", "apply_right"}
UsesLr(func) == func \notin {"apply_top", "apply_bottom"}

\* Padding.apply for the ratios drawn and the offset xy chosen.
PaddingSize(img, w_ratio, h_ratio) ==
    <<Trunc(img[1] * w_ratio[2] + img[1] * w_ratio[1], w_ratio[2]),
      Trunc(img[2] * h_ratio[2] + img[2] * h_ratio[1], h_ratio[2])>>
PaddingOffsets(img, new, center) ==
    IF center THEN {<<Trunc(new[1] - img[1], 2), Trunc(new[2] - img[2], 2)>>}
    ELSE random_xy_offset(img, new)

\* The coordinates of a box are valid in a canvas.
ValidIn(B, img) ==
    /\ 0 <= B.left /\ B.left <= B.right /\ B.right <= img[1]
    /\ 0 <= B.top /\ B.top <= B.bottom /\ B.bottom <= img[2]

lnvars == <<ln_img, ln_bbox, ln_pc, ln_func, ln_tb, ln_lr, ln_ret>>

LineIdle ==
    /\ ln_img = <<1, 1>> /\ ln_bbox = BBox(0, 0, 1, 1) /\ ln_pc = "idle"
    /\ ln_func = "none" /\ ln_tb = NoParam /\ ln_lr = NoParam /\ ln_ret = None

\* A canvas and a text box that lies within it.
LineInit ==
    /\ ln_img \in Widths \X Heights
    /\ ln_bbox \in {BBox(l, t, r, b) : <<l, r>> \in (0..ln_img[1]) \X (0..ln_img[1]),
                                      <<t, b>> \in (0..ln_img[2]) \X (0..ln_img[2])}
    /\ ValidIn(ln_bbox, ln_img)
    /\ ln_pc = "start" /\ ln_func = "none" /\ ln_tb = NoParam /\ ln_lr = NoParam
    /\ ln_ret = None

\* Line.apply when np.random.choice gives one of the enlarging variants.
LineApply ==
    /\ ln_pc = "start"
    /\ \E func \in LineFuncs, tb \in LineParams, lr \in LineParams :
         /\ ln_func' = func
         /\ ln_tb' = IF UsesTb(func) THEN tb ELSE NoParam
         /\ ln_lr' = IF UsesLr(func) THEN lr ELSE NoParam
         /\ ln_ret' = LineVariant(func, ln_img, ln_bbox, tb, lr)
    /\ ln_pc' = "applied"
    /\ UNCHANGED <<ln_img, ln_bbox>>

\* Padding.apply on the canvas and the box.
PaddingApplyBox ==
    /\ ln_pc = "start"
    /\ \E w_ratio \in PadRatiosAll, h_ratio \in PadRatiosAll, center \in BOOLEAN :
         LET new == PaddingSize(ln_img, w_ratio, h_ratio)
         IN  \E xy \in PaddingOffsets(ln_img, new, center) :
               ln_ret' = [img |-> new, bbox |-> move_origin(ln_bbox, xy)]
    /\ ln_func' = "Padding" /\ ln_pc' = "applied"
    /\ UNCHANGED <<ln_img, ln_bbox, ln_tb, ln_lr>>

\* ------------------------------------------------------------------------
\* LmdbDataset (dataset.py:195-349).  A str is the sequence of its code
\* points, a bytes value the sequence of its bytes; a store maps keys to
\* bytes.  The keys f"image-{name}", f"label-{name}", f"size-{name}" and
\* "num-samples" differ in their prefix, so a key is <<prefix, name>>.
LmdbNames == {"000000001", "000000002"}
LmdbLabels == {<<104>>, <<233, 44, 104>>}
LmdbShapes == {<<5, 10>>, <<2, 3>>}
LmdbCounts == {0, 1, 12}

\* str.encode(): UTF-8, for code points below 2048.
RECURSIVE encode(_)
encode(s) ==
    IF s = <<>> THEN <<>>
    ELSE (IF Head(s) < 128 THEN <<Head(s)>>
          ELSE <<192 + (Head(s) \div 64), 128 + (Head(s) % 64)>>) \o encode(Tail(s))

\* bytes.decode().
RECURSIVE decode(_)
decode(b) ==
    IF b = <<>> THEN <<>>
    ELSE IF Head(b) < 128 THEN <<Head(b)>> \o decode(Tail(b))
    ELSE <<(Head(b) - 192) * 64 + (b[2] - 128)>> \o decode(Tail(Tail(b)))

\* str(n) for n >= 0, and int(s) for a string of digits.
RECURSIVE str(_)
str(n) == IF n < 10 THEN <<48 + n>> ELSE str(n \div 10) \o <<48 + (n % 10)>>
RECURSIVE int(_)
int(s) == IF Len(s) = 1 THEN s[1] - 48
          ELSE int(SubSeq(s, 1, Len(s) - 1)) * 10 + (s[Len(s)] - 48)

\* s.split(","): the pieces of s between the commas (code point 44).
RECURSIVE split(_)
split(s) ==
    IF \A i \in 1..Len(s) : s[i] # 44 THEN <<s>>
    ELSE LET i == CHOOSE k \in 1..Len(s) : s[k] = 44 /\ \A j \in 1..(k - 1) : s[j] # 44
         IN  <<SubSeq(s, 1, i - 1)>> \o split(SubSeq(s, i + 1, Len(s)))

\* f"{width},{height}" with the two numbers swapped.
size_strSwapped(shape) == str(shape[1]) \o <<44>> \o str(shape[2])

\* dataset.py:239-240: height, width = image.shape[:2]; f"{width},{height}".
size_str(shape) == str(shape[2]) \o <<44>> \o str(shape[1])

\* txn.put and txn.get; get gives the set of at most one value.
Put(store, k, v) == [x \in DOMAIN store \cup {k} |-> IF x = k THEN v ELSE store[x]]
Get(store, k) == IF k \in DOMAIN store THEN {store[k]} ELSE {}

\* What a scope has been told: per name the label and shape written last,
\* and the count written last.
NoShadow == [items |-> <<>>, count |-> {}]
NoRet == [op |-> "none", name |-> "", label |-> <<>>, size |-> <<>>, count |-> 0]

dbvars == <<ld_disk, ld_txn, ld_pc, ld_scopes, ld_told_disk, ld_told_txn, ld_ret, ld_exc>>

LmdbIdle ==
    /\ ld_disk = <<>> /\ ld_txn = <<>> /\ ld_pc = "idle" /\ ld_scopes = 0
    /\ ld_told_disk = NoShadow /\ ld_told_txn = NoShadow /\ ld_ret = NoRet
    /\ ld_exc = "none"

\* A directory with no database in it yet.
LmdbInit ==
    /\ ld_disk = <<>> /\ ld_txn = <<>> /\ ld_pc = "closed" /\ ld_scopes = 0
    /\ ld_told_disk = NoShadow /\ ld_told_txn = NoShadow /\ ld_ret = NoRet
    /\ ld_exc = "none"

\* with LmdbDataset(d) as dataset: the environment is opened and a write
\* transaction begun on what the directory holds.
LmdbEnter ==
    /\ ld_pc = "closed" /\ ld_scopes < MaxScopes
    /\ ld_txn' = ld_disk
    /\ ld_told_txn' = ld_told_disk
    /\ ld_pc' = "open" /\ ld_scopes' = ld_scopes + 1
    /\ ld_ret' = NoRet /\ ld_exc' = "none"
    /\ UNCHANGED <<ld_disk, ld_told_disk>>

\* write(name, image, label); the image bytes are not followed.
LmdbWrite ==
    /\ ld_pc = "open"
    /\ \E name \in LmdbNames, shape \in LmdbShapes, label \in LmdbLabels :
         /\ ld_txn' = Put(Put(ld_txn, <<"label-", name>>, encode(label)),
                          <<"size-", name>>, encode(size_str(shape)))
         /\ ld_told_txn' = [ld_told_txn EXCEPT
                              !.items = Put(@, name, [label |-> label, shape |-> shape])]
    /\ ld_ret' = NoRet
    /\ UNCHANGED <<ld_disk, ld_pc, ld_scopes, ld_told_disk, ld_exc>>

\* write_count(count).
LmdbWriteCount ==
    /\ ld_pc = "open"
    /\ \E n \in LmdbCounts :
         /\ ld_txn' = Put(ld_txn, <<"num-samples", "">>, encode(str(n)))
         /\ ld_told_txn' = [ld_told_txn EXCEPT !.count = {n}]
    /\ ld_ret' = NoRet
    /\ UNCHANGED <<ld_disk, ld_pc, ld_scopes, ld_told_disk, ld_exc>>

\* read(name): get returns None for a key that is not stored and .decode()
\* on it raises; the exception leaves the scope, which aborts the
\* transaction and closes the environment.
LmdbRead ==
    /\ ld_pc = "open"
    /\ \E name \in LmdbNames :
         IF <<"label-", name>> \in DOMAIN ld_txn
         THEN /\ \E l \in Get(ld_txn, <<"label-", name>>), s \in Get(ld_txn, <<"size-", name>>) :
                   LET size_s == decode(s)
                       size == [i \in 1..Len(split(size_s)) |-> int(split(size_s)[i])]
                   IN  ld_ret' = [op |-> "read", name |-> name, label |-> decode(l),
                                  size |-> size, count |-> 0]
              /\ UNCHANGED <<ld_txn, ld_pc, ld_told_txn, ld_exc>>
         ELSE /\ ld_exc' = "AttributeError"
              /\ ld_pc' = "closed"
              /\ ld_txn' = <<>> /\ ld_told_txn' = NoShadow
              /\ ld_ret' = NoRet
    /\ UNCHANGED <<ld_disk, ld_scopes, ld_told_disk>>

\* read_count().
LmdbReadCount ==
    /\ ld_pc = "open"
    /\ LET got == Get(ld_txn, <<"num-samples", "">>)
       IN  ld_ret' = [op |-> "read_count", name |-> "", label |-> <<>>, size |-> <<>>,
                      count |-> IF got = {} THEN 0
                                ELSE int(decode(CHOOSE c \in got : TRUE))]
    /\ UNCHANGED <<ld_disk, ld_txn, ld_pc, ld_scopes, ld_told_disk, ld_told_txn, ld_exc>>

\* __exit__ at the end of the block: the transaction commits, the
\* environment is closed.
LmdbExit ==
    /\ ld_pc = "open"
    /\ ld_disk' = ld_txn
    /\ ld_told_disk' = ld_told_txn
    /\ ld_txn' = <<>> /\ ld_told_txn' = NoShadow
    /\ ld_pc' = "closed" /\ ld_ret' = NoRet
    /\ UNCHANGED <<ld_scopes, ld_exc>>

\* The components added last.
yvars == <<ptvars, lnvars, dbvars>>
LateIdle == PTIdle /\ LineIdle /\ LmdbIdle

\* The components added to the model after the driver.
xvars == <<cvars, lcvars, ccvars, ecvars, ffvars, hcvars, gvars, yvars>>
ExtIdle ==
    /\ RenderCfgIdle /\ LoadCharsIdle /\ CharCorpusIdle /\ EnumCorpusIdle /\ FontFilterIdle
    /\ HandleCacheInit /\ BatchIdle /\ LateIdle

bvars == <<bbox, bbox_ret, bbox_op>>
lvars == <<layout, h_spacing, layout_in, img_bboxes, sl_ext, sl_merged, lphase, merged_bbox>>

evars == <<canvases, bboxes, effects, fx_pc, fx_in, fx_img, fx_bbox, fx_i, fx_log, fx_ret>>
fmvars == <<font_paths, font_support_chars_cache, font_size, clip_length>>
svars == <<fmvars, s_pc, s_exc, s_ret>>
rvars == <<n_corpus, layout_len, r_pc, r_exc, r_texts, r_ret>>

InitBBox == BBoxInit /\ LayoutIdle /\ EffectIdle /\ SampleIdle /\ RenderIdle /\ DriverIdle /\ ExtIdle
NextBBox ==
    \/ BBoxOffset /\ UNCHANGED <<lvars, evars, svars, rvars, dvars, xvars>>
    \/ BBoxOffset_ /\ UNCHANGED <<lvars, evars, svars, rvars, dvars, xvars>>
    \/ BBoxMoveOrigin /\ UNCHANGED <<lvars, evars, svars, rvars, dvars, xvars>>
SpecBBox == InitBBox /\ [][NextBBox]_vars

InitLayout == LayoutInit /\ BBoxIdle /\ EffectIdle /\ SampleIdle /\ RenderIdle /\ DriverIdle /\ ExtIdle
NextLayout ==
    \/ SameLineLayoutApply /\ UNCHANGED <<bvars, evars, svars, rvars, dvars, xvars>>
    \/ ExtraTextLineLayoutApply /\ UNCHANGED <<bvars, evars, svars, rvars, dvars, xvars>>
    \/ ExtraTextLineLayoutAssert /\ UNCHANGED <<bvars, evars, svars, rvars, dvars, xvars>>
    \/ RenderMergeBBoxes /\ UNCHANGED <<bvars, evars, svars, rvars, dvars, xvars>>
SpecLayout == InitLayout /\ [][NextLayout]_vars

InitEffect == EffectInit /\ BBoxIdle /\ LayoutIdle /\ SampleIdle /\ RenderIdle /\ DriverIdle /\ ExtIdle
NextEffect ==
    \/ ApplyEffectsEnter /\ UNCHANGED <<bvars, lvars, svars, rvars, dvars, xvars>>
    \/ ApplyEffectsCall /\ UNCHANGED <<bvars, lvars, svars, rvars, dvars, xvars>>
    \/ ApplyEffectsReturn /\ UNCHANGED <<bvars, lvars, svars, rvars, dvars, xvars>>
SpecEffect == InitEffect /\ [][NextEffect]_vars

InitRender == SampleInit /\ RenderInit /\ BBoxIdle /\ LayoutIdle /\ EffectIdle /\ DriverIdle /\ ExtIdle
NextRender ==
    \/ SampleGetTextFails /\ UNCHANGED <<bvars, lvars, evars, rvars, dvars, xvars>>
    \/ SampleBody /\ UNCHANGED <<bvars, lvars, evars, rvars, dvars, xvars>>
    \/ SampleRetry /\ UNCHANGED <<bvars, lvars, evars, rvars, dvars, xvars>>
    \/ RenderCall /\ UNCHANGED <<bvars, lvars, evars, fmvars, dvars, xvars>>
    \/ RenderBegin /\ UNCHANGED <<bvars, lvars, evars, fmvars, dvars, xvars>>
    \/ RenderSampled /\ UNCHANGED <<bvars, lvars, evars, fmvars, dvars, xvars>>
    \/ RenderLayout /\ UNCHANGED <<bvars, lvars, evars, fmvars, dvars, xvars>>
    \/ RenderFinish /\ UNCHANGED <<bvars, lvars, evars, fmvars, dvars, xvars>>
    \/ RenderRetry /\ UNCHANGED <<bvars, lvars, evars, fmvars, dvars, xvars>>
SpecRender == InitRender /\ [][NextRender]_vars

ovars == <<bvars, lvars, evars, svars, rvars, xvars>>

DriverProc ==
    \/ DriverStartWriter /\ UNCHANGED ovars
    \/ DriverProcessSetup /\ UNCHANGED ovars
    \/ DriverGenerateImg /\ UNCHANGED ovars
    \/ DriverRenderRetry /\ UNCHANGED ovars
    \/ DriverPutStop /\ UNCHANGED ovars
    \/ DriverJoinWriter /\ UNCHANGED ovars
    \/ PoolCreate /\ UNCHANGED ovars
    \/ PoolApplyAsync /\ UNCHANGED ovars
    \/ PoolJoin /\ UNCHANGED ovars
    \/ \E w \in Workers : PoolRespawn(w) /\ UNCHANGED ovars

WorkerProc(w) ==
    \/ WorkerProcessSetup(w) /\ UNCHANGED ovars
    \/ WorkerTake(w) /\ UNCHANGED ovars
    \/ WorkerGenerateImg(w) /\ UNCHANGED ovars
    \/ WorkerRenderRetry(w) /\ UNCHANGED ovars

WriterProc ==
    \/ WriterOpen /\ UNCHANGED ovars
    \/ WriterGet /\ UNCHANGED ovars
    \/ WriterStep /\ UNCHANGED ovars
    \/ WriterFinish /\ UNCHANGED ovars

InitDriver == DriverInit /\ BBoxIdle /\ LayoutIdle /\ EffectIdle /\ SampleIdle /\ RenderIdle /\ ExtIdle
NextDriver == DriverProc \/ (\E w \in Workers : WorkerProc(w)) \/ WriterProc
SpecDriver == InitDriver /\ [][NextDriver]_vars

\* The operating system schedules every process: the driver, each worker
\* and the writer keep taking the steps they can take.
FairSpecDriver ==
    /\ SpecDriver
    /\ WF_vars(DriverProc)
    /\ \A w \in Workers : WF_vars(WorkerProc(w))
    /\ WF_vars(WriterProc)

zvars == <<bvars, lvars, evars, svars, rvars, dvars, yvars>>

\* A step of the one-configuration run, with the record kept of it.
BatchStep(A) ==
    /\ A
    /\ Track
    /\ UNCHANGED <<bvars, lvars, evars, svars, rvars, cvars, lcvars, ccvars, ecvars, ffvars, hcvars,
                   yvars>>

InitRenderCfg ==
    /\ RenderCfgInit /\ LoadCharsIdle /\ CharCorpusIdle /\ EnumCorpusIdle /\ FontFilterIdle /\ HandleCacheInit /\ BatchIdle
    /\ BBoxIdle /\ LayoutIdle /\ EffectIdle /\ SampleIdle /\ RenderIdle /\ DriverIdle /\ LateIdle
NextRenderCfg ==
    \/ RenderConstruct /\ UNCHANGED <<zvars, lcvars, ccvars, ecvars, ffvars, hcvars, gvars>>
    \/ RenderSampleTexts /\ UNCHANGED <<zvars, lcvars, ccvars, ecvars, ffvars, hcvars, gvars>>
    \/ RenderLayoutCall /\ UNCHANGED <<zvars, lcvars, ccvars, ecvars, ffvars, hcvars, gvars>>
    \/ RenderReturnLabel /\ UNCHANGED <<zvars, lcvars, ccvars, ecvars, ffvars, hcvars, gvars>>
    \/ RenderCfgRetry /\ UNCHANGED <<zvars, lcvars, ccvars, ecvars, ffvars, hcvars, gvars>>
SpecRenderCfg == InitRenderCfg /\ [][NextRenderCfg]_vars

InitChars == LoadCharsInit /\ RenderCfgIdle /\ CharCorpusIdle /\ EnumCorpusIdle /\ FontFilterIdle /\ HandleCacheInit /\ BatchIdle
    /\ BBoxIdle /\ LayoutIdle /\ EffectIdle /\ SampleIdle /\ RenderIdle /\ DriverIdle /\ LateIdle
NextChars ==
    \/ LoadCharsLine /\ UNCHANGED <<zvars, cvars, ccvars, ecvars, ffvars, hcvars, gvars>>
    \/ LoadCharsReturn /\ UNCHANGED <<zvars, cvars, ccvars, ecvars, ffvars, hcvars, gvars>>
SpecChars == InitChars /\ [][NextChars]_vars

InitCharCorpus == CharCorpusInit /\ RenderCfgIdle /\ LoadCharsIdle /\ EnumCorpusIdle /\ FontFilterIdle /\ HandleCacheInit /\ BatchIdle
    /\ BBoxIdle /\ LayoutIdle /\ EffectIdle /\ SampleIdle /\ RenderIdle /\ DriverIdle /\ LateIdle
NextCharCorpus ==
    \/ CharCorpusConstruct /\ UNCHANGED <<zvars, cvars, lcvars, ecvars, ffvars, hcvars, gvars>>
    \/ CharCorpusGetText /\ UNCHANGED <<zvars, cvars, lcvars, ecvars, ffvars, hcvars, gvars>>
SpecCharCorpus == InitCharCorpus /\ [][NextCharCorpus]_vars

InitEnumCorpus == EnumCorpusInit /\ RenderCfgIdle /\ LoadCharsIdle /\ CharCorpusIdle /\ FontFilterIdle /\ HandleCacheInit /\ BatchIdle
    /\ BBoxIdle /\ LayoutIdle /\ EffectIdle /\ SampleIdle /\ RenderIdle /\ DriverIdle /\ LateIdle
NextEnumCorpus ==
    \/ EnumCorpusConstruct /\ UNCHANGED <<zvars, cvars, lcvars, ccvars, ffvars, hcvars, gvars>>
    \/ EnumCorpusGetText /\ UNCHANGED <<zvars, cvars, lcvars, ccvars, ffvars, hcvars, gvars>>
SpecEnumCorpus == InitEnumCorpus /\ [][NextEnumCorpus]_vars

\* The FontManager of a corpus that is refined and filtered, not sampled.
fvars == <<bvars, lvars, evars, rvars, dvars, cvars, lcvars, ccvars, ecvars, hcvars, gvars, yvars,
           font_size, clip_length, s_pc, s_exc, s_ret>>
InitFontFilter ==
    /\ FontFilterInit
    /\ font_size = <<1, 2>> /\ clip_length = -1
    /\ s_pc = "idle" /\ s_exc = None /\ s_ret = None
    /\ RenderCfgIdle /\ LoadCharsIdle /\ CharCorpusIdle /\ EnumCorpusIdle /\ HandleCacheInit /\ BatchIdle
    /\ BBoxIdle /\ LayoutIdle /\ EffectIdle /\ RenderIdle /\ DriverIdle /\ LateIdle
NextFontFilter ==
    \/ UpdateFontSupportChars /\ UNCHANGED fvars
    \/ FilterFontPath /\ UNCHANGED fvars
SpecFontFilter == InitFontFilter /\ [][NextFontFilter]_vars

InitHandleCache ==
    /\ HandleCacheInit /\ BatchIdle
    /\ RenderCfgIdle /\ LoadCharsIdle /\ CharCorpusIdle /\ EnumCorpusIdle /\ FontFilterIdle
    /\ BBoxIdle /\ LayoutIdle /\ EffectIdle /\ SampleIdle /\ RenderIdle /\ DriverIdle /\ LateIdle
NextHandleCache == GetFontHandle /\ UNCHANGED <<zvars, cvars, lcvars, ccvars, ecvars, ffvars, gvars>>
SpecHandleCache == InitHandleCache /\ [][NextHandleCache]_vars

\* The run of __main__ over its generator configurations.
bovars == <<bvars, lvars, evars, svars, rvars, cvars, lcvars, ccvars, ecvars, ffvars, hcvars,
            yvars>>
BatchDriverProc ==
    \/ BatchStep(DriverStartWriter)
    \/ BatchStep(DriverProcessSetup)
    \/ BatchStep(DriverGenerateImg)
    \/ BatchStep(DriverRenderRetry)
    \/ BatchStep(DriverPutStop)
    \/ BatchStep(DriverJoinWriter)
    \/ BatchStep(PoolCreate)
    \/ BatchStep(PoolApplyAsync)
    \/ BatchStep(PoolJoin)
    \/ \E w \in Workers : BatchStep(PoolRespawn(w))
    \/ DriverRenderFails /\ UNCHANGED bovars
    \/ DriverNextCfg /\ UNCHANGED bovars

BatchWorkerProc(w) ==
    \/ BatchStep(WorkerProcessSetup(w))
    \/ BatchStep(WorkerTake(w))
    \/ BatchStep(WorkerGenerateImg(w))
    \/ BatchStep(WorkerRenderRetry(w))
    \/ WorkerRenderFails(w) /\ UNCHANGED bovars

BatchWriterProc ==
    \/ BatchStep(WriterOpen)
    \/ BatchStep(WriterGet)
    \/ BatchStep(WriterStep)
    \/ BatchStep(WriterFinish)

InitBatches ==
    /\ BatchInit
    /\ RenderCfgIdle /\ LoadCharsIdle /\ CharCorpusIdle /\ EnumCorpusIdle /\ FontFilterIdle
    /\ HandleCacheInit
    /\ BBoxIdle /\ LayoutIdle /\ EffectIdle /\ SampleIdle /\ RenderIdle /\ LateIdle
NextBatches == BatchDriverProc \/ (\E w \in Workers : BatchWorkerProc(w)) \/ BatchWriterProc
SpecBatches == InitBatches /\ [][NextBatches]_vars

\* The operating system schedules every process, as in FairSpecDriver.
FairSpecBatches ==
    /\ SpecBatches
    /\ WF_vars(BatchDriverProc)
    /\ \A w \in Workers : WF_vars(BatchWorkerProc(w))
    /\ WF_vars(BatchWriterProc)

\* The components added last, each run with all the others idle.
wvars == <<bvars, lvars, evars, svars, rvars, dvars, cvars, lcvars, ccvars, ecvars, ffvars,
           hcvars, gvars>>
BaseIdle ==
    /\ BBoxIdle /\ LayoutIdle /\ EffectIdle /\ SampleIdle /\ RenderIdle /\ DriverIdle
    /\ RenderCfgIdle /\ LoadCharsIdle /\ CharCorpusIdle /\ EnumCorpusIdle /\ FontFilterIdle
    /\ HandleCacheInit /\ BatchIdle

InitTransform == PTInit /\ BaseIdle /\ LineIdle /\ LmdbIdle
NextTransform ==
    \/ PTConstruct /\ UNCHANGED <<wvars, lnvars, dbvars>>
    \/ PTGetTransformedSize /\ UNCHANGED <<wvars, lnvars, dbvars>>
    \/ PTDoWarpPerspective /\ UNCHANGED <<wvars, lnvars, dbvars>>
    \/ PTSkip /\ UNCHANGED <<wvars, lnvars, dbvars>>
    \/ PTNextCall /\ UNCHANGED <<wvars, lnvars, dbvars>>
SpecTransform == InitTransform /\ [][NextTransform]_vars

InitLine == LineInit /\ BaseIdle /\ PTIdle /\ LmdbIdle
NextLine ==
    \/ LineApply /\ UNCHANGED <<wvars, ptvars, dbvars>>
    \/ PaddingApplyBox /\ UNCHANGED <<wvars, ptvars, dbvars>>
SpecLine == InitLine /\ [][NextLine]_vars

InitLmdb == LmdbInit /\ BaseIdle /\ PTIdle /\ LineIdle
NextLmdb ==
    \/ LmdbEnter /\ UNCHANGED <<wvars, ptvars, lnvars>>
    \/ LmdbWrite /\ UNCHANGED <<wvars, ptvars, lnvars>>
    \/ LmdbWriteCount /\ UNCHANGED <<wvars, ptvars, lnvars>>
    \/ LmdbRead /\ UNCHANGED <<wvars, ptvars, lnvars>>
    \/ LmdbReadCount /\ UNCHANGED <<wvars, ptvars, lnvars>>
    \/ LmdbExit /\ UNCHANGED <<wvars, ptvars, lnvars>>
SpecLmdb == InitLmdb /\ [][NextLmdb]_vars

\* ================================================================ claims

\* The box an offset operation produced: the receiver for the in-place
\* offset_, the returned copy for offset and move_origin.
OpResult == IF bbox_op.name = "offset_" THEN bbox ELSE bbox_ret

\* C6: offset and offset_ translate the box by (move_to - anchor): the image
\* of the anchor is move_to, both edges of each axis move by the same amount,
\* width and height are unchanged, and when the anchor is a named point of
\* the box (left_cnt, ...) the same named point of the result is move_to.
\* offset leaves the receiver as it was.
C6_OffsetTranslates ==
    bbox_op.name # "none" =>
        LET B == bbox_op.before
            R == OpResult
            a == bbox_op.anchor
            t == bbox_op.move_to
        IN  /\ <<a[1] + (R.left - B.left), a[2] + (R.top - B.top)>> = t
            /\ R.right - B.right = R.left - B.left
            /\ R.bottom - B.bottom = R.top - B.top
            /\ width(R) = width(B)
            /\ height(R) = height(B)
            /\ (bbox_op.anchor_name \in AnchorNames => AnchorPt(R, bbox_op.anchor_name) = t)
            /\ (bbox_op.name # "offset_" => bbox = B)

\* C6 witness: an in-place offset_ by the left centre of a box of odd height
\* that moved the box on both axes.
C6_Witness ==
    /\ bbox_op.name = "offset_"
    /\ bbox_op.anchor_name = "left_cnt"
    /\ height(bbox_op.before) % 2 = 1
    /\ bbox.left # bbox_op.before.left
    /\ bbox.top # bbox_op.before.top

Contains(hull, b) ==
    /\ hull.left <= b.left
    /\ hull.top <= b.top
    /\ hull.right >= b.right
    /\ hull.bottom >= b.bottom

ContainsClamped(hull, b) ==
    /\ hull.left <= Max({b.left, 0})
    /\ hull.top <= Max({b.top, 0})
    /\ hull.right >= b.right
    /\ hull.bottom >= b.bottom

Hull(boxes) ==
    BBox(Min({b.left : b \in Range(boxes)}), Min({b.top : b \in Range(boxes)}),
         Max({b.right : b \in Range(boxes)}), Max({b.bottom : b \in Range(boxes)}))

\* C10: after SameLineLayout.apply the left centre of every box i >= 2 is the
\* right centre of box i-1, whose width is the input width plus its gap; the
\* left centre of the first box is the left centre of the hull of the
\* gap-extended inputs; no box changes its height; with h_spacing (0, 0) no
\* gap is added, so two boxes of equal height touch centre to centre.
C10_SameLineChained ==
    (layout = "same_line" /\ lphase \in {"laid", "merged"}) =>
        LET n == Len(img_bboxes) IN
        /\ n = Len(layout_in)
        /\ \A i \in 2..n : left_cnt(img_bboxes[i]) = right_cnt(img_bboxes[i - 1])
        /\ left_cnt(img_bboxes[1]) = left_cnt(Hull(sl_ext))
        /\ \A i \in 1..n :
             /\ height(img_bboxes[i]) = height(layout_in[i])
             /\ width(img_bboxes[i]) = width(sl_ext[i])
             /\ sl_ext[i].left = layout_in[i].left
             /\ width(sl_ext[i]) >= width(layout_in[i])
             /\ (i = n => width(sl_ext[i]) = width(layout_in[i]))
             /\ (i < n => \E s \in ScalesIn(h_spacing[1], h_spacing[2]) :
                    width(sl_ext[i]) = width(layout_in[i]) + SameLineGap(layout_in, s))
        /\ (h_spacing = <<<<0, 1>>, <<0, 1>>>> =>
                \A i \in 1..n : width(img_bboxes[i]) = width(layout_in[i]))

\* C10 witness: three boxes of different heights laid out with a gap.
C10_Witness ==
    /\ layout = "same_line"
    /\ lphase = "laid"
    /\ Len(img_bboxes) = 3
    /\ height(img_bboxes[1]) < height(img_bboxes[2])
    /\ height(img_bboxes[3]) < height(img_bboxes[1])
    /\ width(img_bboxes[1]) > width(layout_in[1])
    /\ img_bboxes[3].top > 0

\* C8: at every call of an effect, when the gate is not taken the call
\* returns the very image and the very box it was given, both unchanged;
\* when the gate is taken apply runs on a new image, a copy made for this
\* call, and the caller's image holds afterwards what it held before. An
\* effect with p = 1 always takes the gate.
C8_EffectGate ==
    \A k \in 1..Len(fx_log) :
        LET r == fx_log[k] IN
        /\ (~r.gate =>
                /\ r.out_img = r.in_img
                /\ r.out_bbox = r.in_bbox
                /\ r.canvas_after = r.canvas_before
                /\ r.box_after = r.box_before
                /\ r.ran_on = 0)
        /\ (r.gate =>
                /\ r.ran_on = r.fresh
                /\ r.ran_on # r.in_img
                /\ r.out_img # r.in_img
                /\ r.canvas_after = r.canvas_before)
        /\ (r.picked.p = "one" => r.gate)

\* C8 witness: a call whose gate was taken by an effect that draws in place,
\* after a call whose gate was not taken.
C8_Witness ==
    /\ Len(fx_log) = 2
    /\ ~fx_log[1].gate
    /\ fx_log[2].gate
    /\ fx_log[2].picked.kind = "dropout_rand"
    /\ canvases[fx_log[2].out_img] # fx_log[2].canvas_before

\* C9: apply_effects calls its effects in list order; the first call gets a
\* copy of the input image and the input box, every later call gets exactly
\* the image and the box the call before it returned, and the result is what
\* the last call returned. When no gate was taken the result is the input
\* box itself, unchanged, and a copy of the input image; the input image is
\* left as it was.
C9_EffectsThreaded ==
    fx_pc \in {"loop", "done"} =>
        /\ Len(fx_log) = fx_i - 1
        /\ \A k \in 1..Len(fx_log) :
             /\ fx_log[k].elem = k
             /\ \/ fx_log[k].picked = effects[k]
                \/ /\ effects[k].kind = "one_of"
                   /\ fx_log[k].picked \in Range(effects[k].effects)
             /\ (k = 1 =>
                    /\ fx_log[k].in_img # fx_in.img
                    /\ fx_log[k].canvas_before = fx_in.canvas
                    /\ fx_log[k].in_bbox = fx_in.bbox)
             /\ (k > 1 =>
                    /\ fx_log[k].in_img = fx_log[k - 1].out_img
                    /\ fx_log[k].in_bbox = fx_log[k - 1].out_bbox)
        /\ (fx_pc = "done" =>
                /\ Len(fx_log) = Len(effects)
                /\ fx_ret = [img |-> fx_log[Len(fx_log)].out_img,
                             bbox |-> fx_log[Len(fx_log)].out_bbox]
                /\ canvases[fx_in.img] = fx_in.canvas
                /\ ((\A k \in 1..Len(fx_log) : ~fx_log[k].gate) =>
                        /\ fx_ret.bbox = fx_in.bbox
                        /\ bboxes[fx_ret.bbox] = fx_in.box
                        /\ fx_ret.img # fx_in.img
                        /\ canvases[fx_ret.img] = fx_in.canvas))

\* C9 witness: a finished run of two effects, both applied, the first of
\* which returned a new box and the second enlarged that box.
C9_Witness ==
    /\ fx_pc = "done"
    /\ Len(fx_log) = 2
    /\ fx_log[1].gate /\ fx_log[1].picked.kind = "padding"
    /\ fx_log[2].gate /\ fx_log[2].picked.kind = "line_bottom"
    /\ fx_ret.bbox # fx_in.bbox
    /\ fx_log[2].box_after # fx_log[2].box_before

\* C1: every FontText sample returns pairs a text with the font of the same
\* get_font call, the text is the clipped get_text result, and every
\* character of it is in that font's support set; check_support reported no
\* missing character for the pair.
C1_GlyphCoverage ==
    s_ret # None =>
        LET ft == s_ret.font_text IN
        /\ ft.font.path = ft.font_path
        /\ ft.font_path \in Range(font_paths)
        /\ s_ret.support_chars = font_support_chars_cache[ft.font_path]
        /\ \A i \in 1..Len(ft.text) : ft.text[i] \in font_support_chars_cache[ft.font_path]
        /\ ft.text = IF clip_length # -1 THEN Clip(s_ret.got, clip_length) ELSE s_ret.got
        /\ (clip_length # -1 => Len(ft.text) <= clip_length)

\* C1 witness: sample returned a clipped text after an attempt that failed
\* for missing characters; the unclipped text holds a character the chosen
\* font lacks.
C1_Witness ==
    /\ s_pc = "returned"
    /\ s_exc # None
    /\ s_exc.cause = "not support chars"
    /\ Len(s_ret.got) > Len(s_ret.font_text.text)
    /\ \E i \in 1..Len(s_ret.got) : s_ret.got[i] \notin s_ret.support_chars

\* C4 as stated: once a PanicError was raised inside the render call, the
\* call is aborted; it makes no further attempt.
C4_PanicNotRetried ==
    [][(r_pc = "raised" /\ r_exc = "PanicError") => r_pc' # "attempt"]_vars

\* What db.write stored, as the messages it was given.
Written == [k \in 1..Len(db_data) |-> [image |-> db_data[k].image, label |-> db_data[k].label]]

\* C2: the writer leaves its consume loop only with the stop token in hand,
\* whatever its count is, and every message dequeued before the token has
\* been written: between two iterations and after the loop, the writes are
\* exactly the messages dequeued, in the same order.
C2_SentinelOnly ==
    /\ [][(wr_pc \in {"loop", "got"} /\ wr_pc' \notin {"loop", "got"})
              => (m = STOP_TOKEN /\ wr_pc = "got")]_vars
    /\ [](wr_pc \in {"loop", "after_loop", "done"} => Written = dequeued)

\* C2 witness: a pool run in which the writer has left the loop on the token
\* after writing all of several images.
C2_Witness ==
    /\ num_processes # 0
    /\ wr_pc = "after_loop"
    /\ m = STOP_TOKEN
    /\ num_image >= 2
    /\ count = num_image
    /\ Written = dequeued

\* The number a name spells, read as a decimal numeral.
RECURSIVE DecimalValue(_)
DecimalValue(s) ==
    IF s = <<>> THEN 0 ELSE 10 * DecimalValue(SubSeq(s, 1, Len(s) - 1)) + s[Len(s)]

\* C3: the k-th message the writer dequeued (k from 0) is stored under the
\* NameWidth-digit zero-filled decimal numeral of exist_count + k, with
\* exist_count the stored count read once before the loop; the names are
\* pairwise distinct and spell the contiguous range from exist_count on.
C3_SequentialNames ==
    /\ wr_pc \in {"loop", "got", "after_loop"} => exist_count = num_samples
    /\ wr_pc = "done" => num_samples = exist_count + count
    /\ \A k \in 1..Len(db_data) :
         /\ Len(db_data[k].name) = NameWidth
         /\ \A i \in 1..NameWidth : db_data[k].name[i] \in 0..9
         /\ DecimalValue(db_data[k].name) = exist_count + (k - 1)
         /\ db_data[k].image = dequeued[k].image
         /\ db_data[k].label = dequeued[k].label
    /\ \A j, k \in 1..Len(db_data) : j # k => db_data[j].name # db_data[k].name
    /\ {DecimalValue(db_data[k].name) : k \in 1..Len(db_data)}
           = exist_count..(exist_count + Len(db_data) - 1)

\* C3 witness: three images stored on top of eight existing ones, the first
\* stored being another than the first submitted.
C3_Witness ==
    /\ exist_count = 8
    /\ Len(db_data) >= 3
    /\ db_data[1].image # 1
    /\ db_data[3].name = <<0, 0, 0, 0, 0, 0, 0, 1, 0>>

\* C5 as stated, for a pool run: once process_setup or generate_img has
\* raised a fatal error in a worker, the driver ends up failed: it neither
\* completes the batch nor waits forever.
C5_FailurePropagated == (num_processes # 0 /\ fatal_raised) ~> (d_pc = "failed")

\* C11: with ExtraTextLineLayout the layout call succeeds on exactly two
\* items and fails (AssertionError) on any other number, and the text it
\* returns, which is the label the render call returns, is the text of the
\* first (main) item alone.
C11_ExtraLineLabel ==
    (cfg_layout = "extra_text_line" /\ rc_pc \in {"laid", "raised", "returned"}
        /\ should_apply_layout(self_corpus)) =>
        /\ Len(font_texts) # 2 => (rc_pc = "raised" /\ rc_exc = "AssertionError")
        /\ (rc_pc = "raised" /\ rc_exc = "AssertionError") => Len(font_texts) # 2
        /\ rc_pc \in {"laid", "returned"} =>
              (Len(font_texts) = 2 /\ merged_text = font_texts[1])
        /\ rc_pc = "returned" => rc_ret.label = font_texts[1]

\* C11 witness: a render call returned the main text as the label while
\* the extra line held another text.
C11_Witness ==
    /\ cfg_layout = "extra_text_line"
    /\ rc_pc = "returned"
    /\ should_apply_layout(self_corpus)
    /\ font_texts = <<(<<"a">>), (<<"a", "b">>)>>
    /\ rc_ret.label = <<"a">>

\* The three mismatches of corpus and corpus_effects as C12 lists them.
C12Lengths == cfg_corpus.list /\ cfg_corpus_effects.list
                  /\ cfg_corpus.len # cfg_corpus_effects.len
C12ListChain == cfg_corpus.list /\ cfg_corpus_effects = EffectsChain
C12SingleList == ~cfg_corpus.list /\ cfg_corpus_effects.list
C12Fatal == rc_pc = "panic" /\ rc_exc = "PanicError" /\ rc_sampled = 0

\* C12 as stated: once the constructor has run, each of the three
\* mismatches has ended it with a PanicError, no sample having been drawn.
C12_ConstructionPanics ==
    (rc_pc # "new" /\ (C12Lengths \/ C12ListChain \/ C12SingleList)) => C12Fatal

\* C12 amended: the same, a list of one corpus with a single effect chain
\* excepted (the one-element list stands for its corpus).
C12_ConstructionPanicsUnwrapped ==
    (rc_pc # "new" /\ (C12Lengths \/ (C12ListChain /\ cfg_corpus.len # 1) \/ C12SingleList))
        => C12Fatal

\* C12 witness: two corpora with one effect chain, rejected by the constructor.
C12_Witness ==
    /\ cfg_corpus = CorpusList(2)
    /\ cfg_corpus_effects = EffectsChain
    /\ C12Fatal

\* What a line holds besides whitespace.
IsInk(c) == c \notin Whitespace
NonWs(line) == SelectSeq(line, IsInk)
FileIdx == 1..Len(chars_file)
LoadDone == lc_pc \in {"returned", "panic"}
\* A blank line: nothing on it, or whitespace only.
BlankLines == {i \in FileIdx : NonWs(chars_file[i]) = <<>>}
\* A space line: a blank line that holds a space character.
SpaceLines == {i \in BlankLines : SPACE_CHAR \in Range(chars_file[i])}

\* C13 as stated: a file with a single blank line yields a set that holds
\* the space character, and a file with two blank lines ends in a PanicError.
C13_BlankLineIsSpace ==
    /\ (lc_pc = "returned" /\ Cardinality(BlankLines) = 1) => SPACE_CHAR \in lc_ret
    /\ (LoadDone /\ Cardinality(BlankLines) >= 2) => lc_pc = "panic"

\* C13 amended: the same of space lines (blank lines holding a space
\* character); the result holds the space character exactly when the file
\* has one space line, and 'Find two space' is raised only for two of them.
C13_SpaceLineOnce ==
    /\ lc_pc = "returned" =>
          (Cardinality(SpaceLines) <= 1 /\ (SPACE_CHAR \in lc_ret <=> Cardinality(SpaceLines) = 1))
    /\ (LoadDone /\ Cardinality(SpaceLines) >= 2) => lc_pc = "panic"
    /\ (lc_pc = "panic" /\ lc_exc = "Find two space") => Cardinality(SpaceLines) >= 2

\* C13 witness: a file with an empty line and one space line was loaded,
\* the result holds the space character.
C13_Witness ==
    /\ lc_pc = "returned"
    /\ Cardinality(SpaceLines) = 1
    /\ Cardinality(BlankLines) = 2
    /\ SPACE_CHAR \in lc_ret

\* C14 as stated: a line of more than one character ends the load in a
\* PanicError, and a load that returns gives exactly the characters of the
\* non-empty lines.
C14_OneCharPerLine ==
    LoadDone =>
        /\ (\E i \in FileIdx : Len(chars_file[i]) > 1) => lc_pc = "panic"
        /\ lc_pc = "returned" =>
              lc_ret = {chars_file[i][1] : i \in {j \in FileIdx : chars_file[j] # <<>>}}

\* C14 amended: a line of more than one character besides surrounding
\* whitespace ends the load in a PanicError; a load that returns gives
\* exactly the one such character of each line that has one, and the space
\* character when there is a space line.
C14_OneInkPerLine ==
    LoadDone =>
        /\ (\E i \in FileIdx : Len(NonWs(chars_file[i])) > 1) => lc_pc = "panic"
        /\ (lc_pc = "panic" /\ lc_exc = "make sure one char one line") =>
              \E i \in FileIdx : Len(NonWs(chars_file[i])) > 1
        /\ lc_pc = "returned" =>
              lc_ret = {NonWs(chars_file[i])[1] :
                          i \in {j \in FileIdx : Len(NonWs(chars_file[j])) = 1}}
                       \cup (IF SpaceLines # {} THEN {SPACE_CHAR} ELSE {})

\* C14 witness: a file holding a character followed by a space on one line
\* and a character on another was loaded as these two characters.
C14_Witness ==
    /\ lc_pc = "returned"
    /\ \E i \in FileIdx : chars_file[i] = <<"a", " ">>
    /\ lc_ret = {"a", "b"}

\* C15: a CharCorpus is constructed exactly when its text is at least
\* max_len long, and then whatever get_text returns is a contiguous piece
\* of the text whose length is at least min_len and less than max_len;
\* get_text raises only when that range of lengths is empty.
C15_SubstringInRange ==
    /\ cc_pc = "panic" <=> (cc_pc # "new" /\ Len(cc_text) < cc_length[2])
    /\ cc_pc = "returned" =>
          /\ cc_length[1] <= Len(cc_ret.word)
          /\ Len(cc_ret.word) < cc_length[2]
          /\ \E at \in 0..(Len(cc_text) - Len(cc_ret.word)) :
                \A i \in 1..Len(cc_ret.word) : cc_ret.word[i] = cc_text[at + i]
    /\ cc_pc = "raised" => cc_length[1] >= cc_length[2]

\* C15 witness: the text is exactly max_len long and get_text returned its
\* longest possible piece, which is not the whole text.
C15_Witness ==
    /\ cc_pc = "returned"
    /\ cc_text = <<"a", "b", "b">>
    /\ cc_length = <<1, 3>>
    /\ cc_ret.word = <<"a", "b">>

\* C16: once the constructor of an EnumCorpus has run, it has raised a
\* PanicError if items and text_paths were both given and if neither was,
\* and it has succeeded only with exactly one of the two non-empty, the
\* texts being those of that source.
C16_ExactlyOneSource ==
    ec_pc # "new" =>
        /\ (ec_items # <<>> /\ ec_text_paths # <<>>) => ec_pc = "panic"
        /\ (ec_items = <<>> /\ ec_text_paths = <<>>) => ec_pc = "panic"
        /\ ec_pc \in {"ready", "returned"} =>
              /\ (ec_items = <<>>) # (ec_text_paths = <<>>)
              /\ ec_items # <<>> => ec_texts = ec_items
              /\ ec_text_paths # <<>> => Len(ec_texts) >= Len(ec_text_paths)

\* C16 witness: a configuration naming a text file and giving items was
\* rejected by the constructor.
C16_Witness ==
    /\ ec_pc = "panic"
    /\ ec_text_paths = <<"t1.txt">>
    /\ ec_items = <<(<<"a">>)>>
    /\ ec_exc = "only one of text_paths or items can be set"

\* C17 as stated: the size of the font get_font returned lies in the
\* half-open range [min_size, max_size); max_size is never selected.
C17_SizeHalfOpen ==
    s_ret # None =>
        /\ s_ret.font_text.font.size >= font_size[1]
        /\ s_ret.font_text.font.size < font_size[2]

\* C17: the size of the font get_font returned is an integer of the closed
\* range [min_size, max_size].
C17_SizeClosed ==
    s_ret # None =>
        /\ s_ret.font_text.font.size \in Int
        /\ s_ret.font_text.font.size >= font_size[1]
        /\ s_ret.font_text.font.size <= font_size[2]

\* C17 witness: a sample was returned whose font has the size max_size.
C17_Witness ==
    /\ s_pc = "returned"
    /\ s_ret # None
    /\ s_ret.font_text.font.size = font_size[2]

\* C18: after update_font_support_chars, each font's validated set is its
\* declared set less exactly the characters that are declared, in the
\* charset and of empty glyph mask, the space excepted; so it is a subset
\* of the declared set and agrees with it outside the charset.
C18_RefineRemovesBlank ==
    ff_pc \in {"updated", "filtered"} =>
        \A f \in Fonts :
            /\ declared[f] \ font_support_chars_cache[f] =
                   {c \in declared[f] \cap charset : c \in glyph_blank[f] /\ c # " "}
            /\ font_support_chars_cache[f] \subseteq declared[f]
            /\ font_support_chars_cache[f] \ charset = declared[f] \ charset

\* C18 witness: a font declaring "a", "b" and the space, all three in the
\* charset, with empty masks for "b" and the space, lost "b" alone.
C18_Witness ==
    /\ ff_pc = "updated"
    /\ declared["f1.ttf"] = {"a", "b", " "}
    /\ charset = {"a", "b", " "}
    /\ glyph_blank["f1.ttf"] = {"b", " "}
    /\ font_support_chars_cache["f1.ttf"] = {"a", " "}

\* C19 as stated: after filter_font_path, font_paths holds exactly the
\* fonts whose validated characters that are also in the charset number
\* at least the threshold.
C19_FilterByCharsetIntersection ==
    ff_pc = "filtered" =>
        Range(font_paths) =
            {f \in Fonts : Cardinality(font_support_chars_cache[f] \cap charset)
                               >= min_support_chars}

C29_EveryStartPossible ==
    cc_pc \in {"ready", "returned"} =>
        \A length \in cc_length[1]..(cc_length[2] - 1) :
            \A start \in 0..(Len(cc_text) - length) :
                length >= 0 => start \in GetTextStarts(cc_text, length)

\* C30 as stated: the constructor accepts every configuration whose corpus
\* is a list of N corpora and whose corpus_effects is a list of N effect
\* chains, N >= 1, and keeps the N corpora to render them one by one.
C30_EqualListsAccepted ==
    (/\ rc_pc # "new"
     /\ cfg_corpus.list /\ cfg_corpus_effects.list
     /\ cfg_corpus.len = cfg_corpus_effects.len
     /\ cfg_corpus.len >= 1)
        => (rc_pc # "panic" /\ rc_exc # "PanicError")

\* The results put on the queue so far, in either driver mode.
ResultsPut == Len(dequeued) + Cardinality({i \in 1..Len(data_queue) : data_queue[i] # STOP_TOKEN})

\* C23: the sentinel is on the queue only behind every result of the
\* batch, all num_image tasks having been submitted and having finished;
\* when the writer has stopped, the queue is empty and every result that
\* was put has been dequeued and written.
C23_SentinelAfterAllResults ==
    /\ \A i \in 1..Len(data_queue) :
          data_queue[i] = STOP_TOKEN =>
              /\ i = Len(data_queue)
              /\ d_i = num_image
              /\ outstanding = 0 /\ taskqueue = <<>>
              /\ \A w \in Workers : w_pc[w] \notin {"render", "raised"}
              /\ ResultsPut = num_image
    /\ wr_pc \in {"after_loop", "done"} =>
          /\ data_queue = <<>>
          /\ outstanding = 0 /\ taskqueue = <<>>
          /\ Len(db_data) = num_image
          /\ {db_data[i].image : i \in 1..Len(db_data)} = 1..num_image
          /\ \A i \in 1..Len(db_data) : db_data[i].image = dequeued[i].image

\* C23 witness: a pool run of MaxImages tasks whose results reached the
\* queue out of submission order, all written when the writer stopped.
C23_Witness ==
    /\ num_processes # 0
    /\ num_image = MaxImages
    /\ wr_pc = "done"
    /\ Len(db_data) = MaxImages
    /\ db_data[1].image # 1

\* The images of the queue elements that are results.
QueuedImages == {data_queue[i].image :
                    i \in {j \in 1..Len(data_queue) : data_queue[j] # STOP_TOKEN}}

\* C24: a configuration whose render() calls all succeed, at once or after
\* failed attempts, ends with the sentinel put, the writer ended and
\* joined, and exactly the num_image results written, each once; a failed
\* attempt puts nothing on the queue, so at no time is a result there twice
\* or a result of a task not yet submitted.
C24_BatchCompletes ==
    /\ [](fault \in {"none", "transient"} =>
            /\ ResultsPut <= d_i
            /\ ResultsPut = Cardinality(QueuedImages \cup {dequeued[i].image : i \in 1..Len(dequeued)})
            /\ Len(db_data) <= num_image)
    /\ \A b \in 1..MaxBatches :
          (batch = b /\ d_pc = "start" /\ fault \in {"none", "transient"}) ~>
              (/\ batch = b /\ d_pc = "done" /\ wr_pc = "done"
               /\ data_queue = <<>>
               /\ Len(db_data) = num_image
               /\ {db_data[i].image : i \in 1..Len(db_data)} = 1..num_image)

\* C24 witness: a pool run completed its configuration of MaxImages images
\* after MaxFailures failed attempts of render().
C24_Witness ==
    /\ num_processes # 0
    /\ fault = "transient"
    /\ failures = MaxFailures
    /\ d_pc = "done" /\ wr_pc = "done"
    /\ Len(db_data) = MaxImages

\* C27: the count the writer stores when it has stopped is exist_count
\* plus the number of results it wrote, which is the number of names it
\* assigned; every name it assigned spells a number below that count, and no
\* name assigned by a later writer over the same dataset is one stored
\* before.
C27_StoredCountIsNextName ==
    /\ wr_pc = "done" =>
          /\ num_samples = exist_count + Len(db_data)
          /\ count = Len(db_data)
          /\ Cardinality({db_data[k].name : k \in 1..Len(db_data)}) = count
          /\ \A k \in 1..Len(db_data) : DecimalValue(db_data[k].name) < num_samples
    /\ \A k \in 1..Len(db_data) : db_data[k].name \notin stored

\* C27 witness: the writer of a second configuration over the same dataset
\* has stopped after writing behind the names of the first.
C27_Witness ==
    /\ batch = 2
    /\ stored # {}
    /\ wr_pc = "done"
    /\ Len(db_data) >= 2
    /\ exist_count > 8

\* C28: at most one writer process is running; when a writer is started
\* the queue is empty, so it holds no result and no sentinel of an earlier
\* configuration; every element of the queue was put in the configuration
\* at hand, every result was written by the writer of the configuration
\* that put it, and a writer stops on its own configuration's sentinel.
C28_OneWriterPerBatch ==
    /\ alive <= 1
    /\ d_pc = "start" => (data_queue = <<>> /\ alive = 0)
    /\ wr_pc = "open" => \A i \in 1..Len(q_batch) : q_batch[i] = wr_batch
    /\ \A i \in 1..Len(q_batch) : q_batch[i] = batch
    /\ \A k \in 1..Len(routed) :
          routed[k].put_in = batch /\ routed[k].written_by = batch
    /\ wr_pc \in {"after_loop", "done"} => (m_batch = wr_batch /\ wr_batch = batch)

\* C28 witness: the writer of the second configuration of a pool run has
\* written that configuration's results and has stopped.
C28_Witness ==
    /\ batch = 2
    /\ num_processes # 0
    /\ wr_pc = "done"
    /\ Len(routed) >= 2
    /\ routed[1].put_in = 2

\* C21: the image a render call returned has cfg.height rows when
\* cfg.height is not -1, and one channel when cfg.gray is set; the label
\* returned with it is the sampled text for a single corpus and the text
\* the layout merged for several corpora.
C21_NormalizedImage ==
    rc_pc = "returned" =>
        /\ cfg_height # -1 => rc_ret.image.rows = cfg_height
        /\ cfg_gray => rc_ret.image.channels = 1
        /\ rc_ret.image.cols >= 1
        /\ rc_ret.label = IF should_apply_layout(self_corpus)
                          THEN LayoutMergeTexts(cfg_layout, font_texts)
                          ELSE font_texts[1]

\* C21 witness: a render call of two corpora returned a gray image resized
\* from four rows to the configured three, with the merged text.
C21_Witness ==
    /\ rc_pc = "returned"
    /\ cfg_gray /\ cfg_height = 3
    /\ np_img.rows = 4
    /\ rc_ret.image = [rows |-> 3, cols |-> 2, channels |-> 1]
    /\ Len(font_texts) = 2
    /\ rc_ret.label = <<"a", "b">>

\* C25: do_warp_perspective warps with the matrix and the side length that
\* the most recent gen_warp_matrix call on the same instance stored, and
\* raises exactly when get_transformed_size was never called on the instance;
\* in gen_single_corpus and gen_multi_corpus the transformer is constructed
\* in the render call, get_transformed_size is called once on it with the
\* size of the mask that do_warp_perspective then warps, the warp never
\* raises for the missing matrix, and the rotation is drawn once per call.
C25_WarpUsesLastMatrix ==
    /\ pt_pc = "warped" =>
         /\ pt_last # {}
         /\ \A u \in pt_used : \A l \in pt_last :
              /\ u.M33 = l
              /\ u.sl = SideLength(l[2])
    /\ IF pt_pc = "raised" THEN pt_exc = "AttributeError" ELSE pt_exc = None
    /\ pt_pc = "raised" => pt_gens = 0
    /\ (pt_pc = "warped" /\ pt_caller # "direct") =>
         /\ pt_gens = 1
         /\ pt_draws = 1
         /\ \A u \in pt_used : \A l \in pt_last :
              /\ l[2] = pt_canvas
              /\ u.img = pt_canvas
              /\ l[1] \in pt_xyz
    /\ pt_caller # "direct" => (pt_pc # "raised" /\ pt_draws <= 1)
C25_Witness ==
    /\ pt_caller = "gen_multi_corpus" /\ pt_pc = "warped" /\ pt_canvas = <<4, 3>>
    /\ \E u \in pt_used : u.sl = 5 /\ u.img = <<4, 3>>

\* C26 as stated: after Padding.apply or an enlarging variant of Line.apply
\* on a box that lies within the canvas, the returned box has valid
\* coordinates in the returned canvas: 0 <= left <= right <= width and
\* 0 <= top <= bottom <= height, whatever thickness and offsets were drawn.
C26_BBoxValidInNewCanvas ==
    ln_pc = "applied" => ValidIn(ln_ret.bbox, ln_ret.img)

\* C22: read(name) returns the label given to the last write(name, ...) of
\* this scope or of an earlier scope that ended normally, and as size
\* [width, height] of that image; read_count() returns the count given to
\* the last write_count of this or of such an earlier scope, and 0 when
\* there was none.
C22_LmdbRoundTrip ==
    /\ ld_ret.op = "read" =>
         /\ ld_ret.name \in DOMAIN ld_told_txn.items
         /\ ld_ret.label = ld_told_txn.items[ld_ret.name].label
         /\ ld_ret.size = <<ld_told_txn.items[ld_ret.name].shape[2],
                            ld_told_txn.items[ld_ret.name].shape[1]>>
    /\ ld_ret.op = "read_count" =>
         IF ld_told_txn.count = {} THEN ld_ret.count = 0
         ELSE ld_ret.count \in ld_told_txn.count
\* C22: the test: in a second scope, read gives the label and [10, 5] of the
\* 5-row, 10-column image written and committed in the first.
C22_Witness ==
    /\ ld_scopes = 2 /\ ld_pc = "open"
    /\ ld_told_txn = ld_told_disk
    /\ ld_ret.op = "read" /\ ld_ret.name = "000000001"
    /\ ld_ret.label = <<233, 44, 104>> /\ ld_ret.size = <<10, 5>>
    /\ ld_told_disk.count = {12}

====
